---- MODULE Spec2Model ----
(***************************************************************************)
(* Azure RBAC roles and assignments exporter                               *)
(* (scripts/azure/python/export_rbac_roles_and_assignments.py).            *)
(*                                                                         *)
(* main() is modelled as a sequential state machine: pc is the position    *)
(* in main(), one action per stage or loop iteration.  The cloud provider, *)
(* the directory service and the credential chain are the environment:     *)
(* what they answer is drawn from small sets.                              *)
(*                                                                         *)
(* A scope path is the sequence of its '/'-separated segments, each with   *)
(* its leading '/':  "/subscriptions/abc" is <<"subscriptions", "abc">>.   *)
(* Identifiers (subscription ids, names) are strings.                      *)
(***************************************************************************)
EXTENDS Integers, Sequences, FiniteSets, TLC

(***************************************************************************)
(* Program constants                                                       *)
(***************************************************************************)
LARGE_SUBSCRIPTION_THRESHOLD == 25
LARGE_RESOURCE_GROUP_THRESHOLD == 200
REDACTED == "[REDACTED]"
\* Python's None, for the values the SDK objects may leave unset
None == "<None>"

(***************************************************************************)
(* Bounds of the model                                                     *)
(***************************************************************************)
\* longest scope path (in segments) given to the classifier
MaxPathLen == 4
\* subscriptions of the largest tenant (one more than the threshold)
MaxSubs == 26
\* resource groups of the largest tenant (one more than the threshold)
MaxRgs == 201
\* largest --markdown-top / row count tried on write_markdown
MaxTop == 3
\* calls of resolve_principal in a resolver run
MaxCalls == 3

(***************************************************************************)
(* Python helpers                                                          *)
(***************************************************************************)
Min(a, b) == IF a <= b THEN a ELSE b

\* seq[:n] for n >= 0, and for n < 0 (drop the last -n)
Take(seq, n) ==
    IF n >= 0 THEN SubSeq(seq, 1, Min(n, Len(seq)))
    ELSE SubSeq(seq, 1, IF Len(seq) + n > 0 THEN Len(seq) + n ELSE 0)

\* truthiness of an int argument (None and 0 are both false)
Truthy(n) == n # 0

RECURSIVE Join(_)
\* '/'.join(segs): the text of a path piece that has no leading '/'
Join(segs) ==
    IF Len(segs) = 0 THEN ""
    ELSE IF Len(segs) = 1 THEN segs[1]
    ELSE segs[1] \o "/" \o Join(Tail(segs))

RECURSIVE SumSeq(_)
SumSeq(s) == IF Len(s) = 0 THEN 0 ELSE s[1] + SumSeq(Tail(s))

\* '/a/b/' in path: the pattern's segments occur consecutively and a '/'
\* follows the last of them (a further segment exists)
ContainsPat(path, pat) ==
    \E i \in 1..Len(path) :
        /\ i + Len(pat) <= Len(path)
        /\ \A k \in 1..Len(pat) : path[i + k - 1] = pat[k]

\* index of the first match of the one-segment pattern '/kw/' at or after
\* position from; 0 when there is none
FirstMatch(segs, kw, from) ==
    IF \E i \in from..(Len(segs) - 1) : segs[i] = kw
    THEN CHOOSE i \in from..(Len(segs) - 1) :
            /\ segs[i] = kw
            /\ \A j \in from..(i - 1) : segs[j] # kw
    ELSE 0

\* text.split('/kw/')[0] for a text that starts at segment `from` of segs
\* (from = 1: an absolute path, whose first segment may match; from = 2 on a
\* relative text, whose first segment has no leading '/')
SplitHead(segs, kw, from) ==
    LET m == FirstMatch(segs, kw, from)
    IN  IF m = 0 THEN segs ELSE SubSeq(segs, 1, m - 1)

\* text.split('/kw/')[1], as a relative text; <<>> when the split has one part
SplitSecond(segs, kw, from) ==
    LET m == FirstMatch(segs, kw, from)
        rest == SubSeq(segs, m + 1, Len(segs))
    IN  IF m = 0 THEN << >> ELSE SplitHead(rest, kw, 2)

(***************************************************************************)
(* get_role_assignments: the record built for one provider assignment      *)
(***************************************************************************)
MG_PATTERN == <<"providers", "Microsoft.Management", "managementGroups">>

ScopeType(scope) ==
    IF ContainsPat(scope, MG_PATTERN) THEN "ManagementGroup"
    ELSE IF ContainsPat(scope, <<"subscriptions">>)
            /\ ContainsPat(scope, <<"resourceGroups">>) THEN "ResourceGroup"
    ELSE IF ContainsPat(scope, <<"subscriptions">>) THEN "Subscription"
    ELSE "Unknown"

ScopeSubscriptionId(scope) ==
    LET parts1 == SplitSecond(scope, "subscriptions", 1)
    IN  CASE ScopeType(scope) = "ResourceGroup" ->
                Join(SplitHead(parts1, "resourceGroups", 2))
          [] ScopeType(scope) = "Subscription" -> parts1[1]
          [] OTHER -> ""

ScopeResourceGroup(scope) ==
    LET parts1 == SplitSecond(scope, "subscriptions", 1)
    IN  IF ScopeType(scope) = "ResourceGroup"
        THEN Join(SplitSecond(parts1, "resourceGroups", 2))
        ELSE ""


\* the provider's "inherited" metadata of one returned assignment, as
\* additional_properties carries it: "absent", "false" or "true"
ProviderInherited(a) == a.prov_inherited = "true"

\* mutant: the scope field holds the assignment's own scope
AssignmentRecord_native_scope(scope, a) ==
    [ scope                |-> a.native,
      scopeType            |-> ScopeType(scope),
      subscriptionId       |-> ScopeSubscriptionId(scope),
      resourceGroup        |-> ScopeResourceGroup(scope),
      roleDefinitionId     |-> a.role_definition_id,
      assignmentId         |-> a.id,
      principalId          |-> a.principal_id,
      principalType        |-> IF a.principal_type = None THEN "Unknown"
                               ELSE a.principal_type,
      principalDisplayName |-> "",
      principalUPNOrAppId  |-> "",
      inherited            |-> ProviderInherited(a) ]

\* mutant: classified by the assignment's own scope
AssignmentRecord_native(scope, a) ==
    [ scope                |-> scope,
      scopeType            |-> ScopeType(a.native),
      subscriptionId       |-> ScopeSubscriptionId(a.native),
      resourceGroup        |-> ScopeResourceGroup(a.native),
      roleDefinitionId     |-> a.role_definition_id,
      assignmentId         |-> a.id,
      principalId          |-> a.principal_id,
      principalType        |-> IF a.principal_type = None THEN "Unknown"
                               ELSE a.principal_type,
      principalDisplayName |-> "",
      principalUPNOrAppId  |-> "",
      inherited            |-> ProviderInherited(a) ]

\* one element of the list get_role_assignments returns: classified by the
\* QUERIED scope; `a` is the provider's assignment object.  (condition,
\* conditionVersion, createdOn and the empty roleDefinitionName are copied
\* attributes no operation reads; they are left out of the record.)
AssignmentRecord(scope, a) ==
    [ scope                |-> scope,
      scopeType            |-> ScopeType(scope),
      subscriptionId       |-> ScopeSubscriptionId(scope),
      resourceGroup        |-> ScopeResourceGroup(scope),
      roleDefinitionId     |-> a.role_definition_id,
      assignmentId         |-> a.id,
      principalId          |-> a.principal_id,
      principalType        |-> IF a.principal_type = None THEN "Unknown"
                               ELSE a.principal_type,
      principalDisplayName |-> "",
      principalUPNOrAppId  |-> "",
      inherited            |-> ProviderInherited(a) ]

\* get_role_assignments(credential, scope): `answer` is what the provider
\* does with list_for_scope: [ok |-> FALSE] when the call raises (caught:
\* the function returns []), else the assignments it returns
get_role_assignments(scope, answer) ==
    IF ~answer.ok THEN << >>
    ELSE [i \in 1..Len(answer.value) |-> AssignmentRecord(scope, answer.value[i])]

\* get_role_definitions(credential, scope): likewise
get_role_definitions(scope, answer) ==
    IF ~answer.ok THEN << >>
    ELSE [i \in 1..Len(answer.value) |->
            [ roleDefinitionName |-> answer.value[i].role_name,
              roleDefinitionId   |-> answer.value[i].id ]]

\* the "Mark inherited assignments" loop of main(), on the list
\* get_role_assignments returned for `scope`
MarkInherited(assignments, scope) ==
    [i \in 1..Len(assignments) |->
        IF assignments[i].scope # scope
        THEN [assignments[i] EXCEPT !.inherited = TRUE]
        ELSE assignments[i]]

(***************************************************************************)
(* resolve_principal                                                       *)
(***************************************************************************)
\* mutant: groups are looked up too
LOOKUP_TYPES_with_groups == {"User", "ServicePrincipal", "Group"}

LOOKUP_TYPES == {"User", "ServicePrincipal"}

\* `x or principal_id`
OrId(x, principal_id) == IF x = None \/ x = "" THEN principal_id ELSE x

\* mutant: the result of a failed lookup is returned but not cached
resolve_principal_failure_not_cached(cache, principal_id, principal_type, no_resolve, redact, has_graph, answer) ==
    LET asked == has_graph /\ principal_type \in LOOKUP_TYPES
        found == asked /\ answer.ok
        display_name == IF found THEN OrId(answer.display_name, principal_id)
                        ELSE principal_id
        upn_or_app_id == IF found THEN OrId(answer.ident, principal_id)
                         ELSE principal_id
        plain == IF no_resolve THEN <<principal_id, principal_id>>
                 ELSE <<display_name, upn_or_app_id>>
        result == IF redact THEN <<REDACTED, REDACTED>> ELSE plain
    IN  IF principal_id \in DOMAIN cache
        THEN [result |-> cache[principal_id], cache |-> cache, calls |-> 0]
        ELSE [result |-> result,
              cache  |-> IF ~no_resolve /\ asked /\ ~answer.ok THEN cache
                         ELSE [p \in DOMAIN cache \cup {principal_id} |->
                                 IF p = principal_id THEN result ELSE cache[p]],
              calls  |-> IF ~no_resolve /\ asked THEN 1 ELSE 0]

\* mutant: the no_resolve flag is ignored
resolve_principal_always_resolves(cache, principal_id, principal_type, no_resolve, redact, has_graph, answer) ==
    LET asked == has_graph /\ principal_type \in LOOKUP_TYPES
        found == asked /\ answer.ok
        display_name == IF found THEN OrId(answer.display_name, principal_id)
                        ELSE principal_id
        upn_or_app_id == IF found THEN OrId(answer.ident, principal_id)
                         ELSE principal_id
        result == IF redact THEN <<REDACTED, REDACTED>>
                  ELSE <<display_name, upn_or_app_id>>
    IN  IF principal_id \in DOMAIN cache
        THEN [result |-> cache[principal_id], cache |-> cache, calls |-> 0]
        ELSE [result |-> result,
              cache  |-> [p \in DOMAIN cache \cup {principal_id} |->
                            IF p = principal_id THEN result ELSE cache[p]],
              calls  |-> IF asked THEN 1 ELSE 0]

\* mutant: the two fields start out empty instead of holding the id
resolve_principal_empty_fallback(cache, principal_id, principal_type, no_resolve, redact, has_graph, answer) ==
    LET asked == has_graph /\ principal_type \in LOOKUP_TYPES
        found == asked /\ answer.ok
        display_name == IF found THEN OrId(answer.display_name, principal_id)
                        ELSE ""
        upn_or_app_id == IF found THEN OrId(answer.ident, principal_id)
                         ELSE ""
        plain == IF no_resolve THEN <<principal_id, principal_id>>
                 ELSE <<display_name, upn_or_app_id>>
        result == IF redact THEN <<REDACTED, REDACTED>> ELSE plain
    IN  IF principal_id \in DOMAIN cache
        THEN [result |-> cache[principal_id], cache |-> cache, calls |-> 0]
        ELSE [result |-> result,
              cache  |-> [p \in DOMAIN cache \cup {principal_id} |->
                            IF p = principal_id THEN result ELSE cache[p]],
              calls  |-> IF ~no_resolve /\ asked THEN 1 ELSE 0]

\* mutant: the no-resolve fast path returns before redaction
resolve_principal_fast_path_plain(cache, principal_id, principal_type, no_resolve, redact, has_graph, answer) ==
    LET asked == has_graph /\ principal_type \in LOOKUP_TYPES
        found == asked /\ answer.ok
        display_name == IF found THEN OrId(answer.display_name, principal_id)
                        ELSE principal_id
        upn_or_app_id == IF found THEN OrId(answer.ident, principal_id)
                         ELSE principal_id
        result == IF no_resolve THEN <<principal_id, principal_id>>
                  ELSE IF redact THEN <<REDACTED, REDACTED>>
                  ELSE <<display_name, upn_or_app_id>>
    IN  IF principal_id \in DOMAIN cache
        THEN [result |-> cache[principal_id], cache |-> cache, calls |-> 0]
        ELSE [result |-> result,
              cache  |-> [p \in DOMAIN cache \cup {principal_id} |->
                            IF p = principal_id THEN result ELSE cache[p]],
              calls  |-> IF ~no_resolve /\ asked THEN 1 ELSE 0]

\* mutant: the cache is written but never read
resolve_principal_uncached(cache, principal_id, principal_type, no_resolve, redact, has_graph, answer) ==
    LET asked == has_graph /\ principal_type \in LOOKUP_TYPES
        found == asked /\ answer.ok
        plain == IF no_resolve \/ ~found THEN <<principal_id, principal_id>>
                 ELSE <<OrId(answer.display_name, principal_id),
                        OrId(answer.ident, principal_id)>>
        result == IF redact THEN <<REDACTED, REDACTED>> ELSE plain
    IN  [result |-> result,
         cache  |-> [p \in DOMAIN cache \cup {principal_id} |->
                       IF p = principal_id THEN result ELSE cache[p]],
         calls  |-> IF ~no_resolve /\ asked THEN 1 ELSE 0]

\* cache: a function from the principal ids seen so far to their pair.
\* `answer` is what the directory does if it is asked: [ok |-> FALSE] when
\* the lookup raises, else the object's display name and UPN / AppId.
\* Returns the pair, the cache afterwards and the number of directory calls
\* issued (0 or 1).
resolve_principal(cache, principal_id, principal_type, no_resolve, redact, has_graph, answer) ==
    LET asked == has_graph /\ principal_type \in LOOKUP_TYPES
        found == asked /\ answer.ok
        display_name == IF found THEN OrId(answer.display_name, principal_id)
                        ELSE principal_id
        upn_or_app_id == IF found THEN OrId(answer.ident, principal_id)
                         ELSE principal_id
        plain == IF no_resolve THEN <<principal_id, principal_id>>
                 ELSE <<display_name, upn_or_app_id>>
        result == IF redact THEN <<REDACTED, REDACTED>> ELSE plain
    IN  IF principal_id \in DOMAIN cache
        THEN [result |-> cache[principal_id], cache |-> cache, calls |-> 0]
        ELSE [result |-> result,
              cache  |-> [p \in DOMAIN cache \cup {principal_id} |->
                            IF p = principal_id THEN result ELSE cache[p]],
              calls  |-> IF ~no_resolve /\ asked THEN 1 ELSE 0]

(***************************************************************************)
(* expand_group_members                                                    *)
(***************************************************************************)
\* str(odata_type).replace('#microsoft.graph.', '')
StripGraphPrefix(t) ==
    CASE t = "#microsoft.graph.user"  -> "user"
      [] t = "#microsoft.graph.group" -> "group"
      [] OTHER -> t

MemberRecord(m) ==
    [ memberPrincipalId |-> m.id,
      memberType        |-> StripGraphPrefix(m.odata_type),
      memberDisplayName |-> OrId(m.display_name, m.id),
      memberUPN         |-> IF m.has_upn THEN m.user_principal_name ELSE "" ]

\* `answer`: what the directory does with the members query of the mode:
\* [ok |-> FALSE] when it raises, else response.value for members.get()
\* (direct) and transitive_members.get() (transitive); has_value is false
\* when the response is None or has no value attribute
expand_group_members(has_graph, top, mode, answer) ==
    LET value == IF mode = "direct" THEN answer.direct ELSE answer.transitive
        cut == Take(value, top)
    IN  IF ~has_graph \/ ~answer.ok \/ ~answer.has_value
           \/ mode \notin {"direct", "transitive"}
        THEN << >>
        ELSE [i \in 1..Len(cut) |-> MemberRecord(cut[i])]

\* mutant: the last returned member is merged instead of the first
MergeMembers_last_member(assignment, members, redact) ==
    IF Len(members) = 0 THEN assignment
    ELSE [k \in DOMAIN assignment \cup
                {"memberCount", "memberPrincipalId", "memberType",
                 "memberDisplayName", "memberUPN"} |->
            CASE k = "memberCount"       -> Len(members)
              [] k = "memberPrincipalId" -> members[Len(members)].memberPrincipalId
              [] k = "memberType"        -> members[Len(members)].memberType
              [] k = "memberDisplayName" -> members[Len(members)].memberDisplayName
              [] k = "memberUPN"         -> IF redact THEN REDACTED
                                            ELSE members[Len(members)].memberUPN
              [] OTHER -> assignment[k]]

\* the member information main() merges onto a Group assignment
MergeMembers(assignment, members, redact) ==
    IF Len(members) = 0 THEN assignment
    ELSE [k \in DOMAIN assignment \cup
                {"memberCount", "memberPrincipalId", "memberType",
                 "memberDisplayName", "memberUPN"} |->
            CASE k = "memberCount"       -> Len(members)
              [] k = "memberPrincipalId" -> members[1].memberPrincipalId
              [] k = "memberType"        -> members[1].memberType
              [] k = "memberDisplayName" -> members[1].memberDisplayName
              [] k = "memberUPN"         -> IF redact THEN REDACTED
                                            ELSE members[1].memberUPN
              [] OTHER -> assignment[k]]

(***************************************************************************)
(* check_large_tenant_thresholds                                           *)
(***************************************************************************)
\* mutant: the subscription threshold compared with >=
check_large_tenant_thresholds_inclusive(sub_count, rg_counts, include_resources, subscriptions_arg, confirm_large_scan) ==
    IF \/ sub_count >= LARGE_SUBSCRIPTION_THRESHOLD
       \/ SumSeq(rg_counts) > LARGE_RESOURCE_GROUP_THRESHOLD
       \/ (include_resources /\ subscriptions_arg = << >>)
    THEN confirm_large_scan
    ELSE TRUE

\* rg_counts: len(rgs) of every entry of resource_groups_per_sub
check_large_tenant_thresholds(sub_count, rg_counts, include_resources, subscriptions_arg, confirm_large_scan) ==
    LET total_rg_count == SumSeq(rg_counts)
    IN  IF \/ sub_count > LARGE_SUBSCRIPTION_THRESHOLD
           \/ total_rg_count > LARGE_RESOURCE_GROUP_THRESHOLD
           \/ (include_resources /\ subscriptions_arg = << >>)
        THEN confirm_large_scan
        ELSE TRUE

(***************************************************************************)
(* Report emitters: what each writer puts in its file                      *)
(***************************************************************************)
REDACT_KEYS == {"principalUPNOrAppId", "memberUPN"}
NoFile == [kind |-> "none"]

\* mutant: principalUPNOrAppId left out of the redacted keys
RedactRow_member_only(row) ==
    [k \in DOMAIN row |-> IF k = "memberUPN" THEN REDACTED ELSE row[k]]

RedactRow(row) ==
    [k \in DOMAIN row |-> IF k \in REDACT_KEYS THEN REDACTED ELSE row[k]]

RedactData(data, redact) ==
    IF redact THEN [i \in 1..Len(data) |-> RedactRow(data[i])] ELSE data

\* [row.get(header, '') for header in headers]; csv.DictWriter's restval
CellsOf(row, headers) ==
    [h \in headers |-> IF h \in DOMAIN row THEN row[h] ELSE ""]

\* rows DictWriter.writerows puts out before it raises ValueError on the
\* first row that has a key outside fieldnames (the error is caught and
\* logged by write_csv; the rows already written stay in the file)
CsvWritable(data, headers) ==
    IF \A i \in 1..Len(data) : DOMAIN data[i] \subseteq headers THEN Len(data)
    ELSE (CHOOSE i \in 1..Len(data) :
            /\ ~(DOMAIN data[i] \subseteq headers)
            /\ \A j \in 1..(i - 1) : DOMAIN data[j] \subseteq headers) - 1

write_csv(data, redact) ==
    IF Len(data) = 0 THEN NoFile
    ELSE LET d == RedactData(data, redact)
             headers == DOMAIN d[1]
         IN  [ kind |-> "csv",
               rows |-> [i \in 1..CsvWritable(d, headers) |->
                            CellsOf(d[i], headers)] ]

write_xlsx(data, has_openpyxl, redact) ==
    IF ~has_openpyxl \/ Len(data) = 0 THEN NoFile
    ELSE LET d == RedactData(data, redact)
             headers == DOMAIN d[1]
         IN  [ kind |-> "xlsx",
               rows |-> [i \in 1..Len(d) |-> CellsOf(d[i], headers)] ]

\* mutant: the row limit is not applied
write_markdown_unlimited(data, top, redact) ==
    IF Len(data) = 0 THEN NoFile
    ELSE LET d == RedactData(data, redact)
         IN  [ kind  |-> "md",
               rows  |-> [i \in 1..Len(d) |-> CellsOf(d[i], DOMAIN d[1])],
               shown |-> Len(d),
               total |-> Len(data) ]

\* footer: '*Showing first {shown} rows of {total} total*'
write_markdown(data, top, redact) ==
    IF Len(data) = 0 THEN NoFile
    ELSE LET limited_data == RedactData(Take(data, top), redact)
         IN  [ kind  |-> "md",
               rows  |-> IF Len(limited_data) = 0 THEN << >>
                         ELSE [i \in 1..Len(limited_data) |->
                                CellsOf(limited_data[i], DOMAIN limited_data[1])],
               shown |-> Len(limited_data),
               total |-> Len(data) ]

write_json(data, redact) ==
    IF Len(data) = 0 THEN NoFile
    ELSE [kind |-> "json", rows |-> RedactData(data, redact)]


(***************************************************************************)
(* The run: command line, environment and the state of main()              *)
(***************************************************************************)
VARIABLES
    argv,                    \* the parsed command line (argparse namespace)
    env,                     \* the tenant, the directory and the host
    pc,                      \* position in main()
    exit_code,               \* sys.exit status; -1 while running
    subscriptions_arg,       \* args.subscriptions after validate_arguments
    logging,                 \* init_logging has run
    credential_type,         \* preflight_check's result
    probes,                  \* token probes made, in order
    management_groups,       \* names of the management groups listed
    subscriptions,           \* subscription ids listed (after the filter)
    resource_groups_per_sub, \* subscription id -> resource group names
    output_dir,              \* new_output_paths has created the directory
    files,                   \* output artifacts written
    all_role_definitions,
    all_role_assignments,
    scopes_processed,
    scopes_skipped,
    errors,
    warnings,
    principal_cache,
    lookups,                 \* calls of resolve_principal, in order
    group_calls,             \* group ids whose members were requested
    queried,                 \* provider list calls per scope, in order
    mg_i, sub_i, rg_i, row_i,\* loop positions
    call, ret                \* arguments and result of a function called alone

vars == << argv, env, pc, exit_code, subscriptions_arg, logging,
           credential_type, probes, management_groups, subscriptions,
           resource_groups_per_sub, output_dir, files, all_role_definitions,
           all_role_assignments, scopes_processed, scopes_skipped, errors,
           warnings, principal_cache, lookups, group_calls, queried,
           mg_i, sub_i, rg_i, row_i, call, ret >>

\* argparse defaults
DEFAULT_MARKDOWN_TOP == 200
DEFAULT_GROUP_MEMBERS_TOP == 500

MgScope(name) == MG_PATTERN \o <<name>>
SubScope(sub_id) == <<"subscriptions", sub_id>>
\* mutant: the subscription id and the resource group's name swapped
RgScope_swapped(sub_id, name) ==
    <<"subscriptions", name, "resourceGroups", sub_id>>

RgScope(sub_id, name) == <<"subscriptions", sub_id, "resourceGroups", name>>

(***************************************************************************)
(* The tenant: what the provider lists and returns                         *)
(***************************************************************************)
SubId(i) == IF i = 1 THEN "abc" ELSE "sub" \o ToString(i)
RgName(j) == "rg" \o ToString(j)

\* the accessible subscriptions, in listing order; e.rg_counts[i] is the
\* number of resource groups of the i-th
TenantSubscriptions(e) == [i \in 1..Len(e.rg_counts) |-> SubId(i)]

TenantResourceGroups(e, sub_id) ==
    LET i == CHOOSE k \in 1..Len(e.rg_counts) : SubId(k) = sub_id
    IN  [j \in 1..e.rg_counts[i] |-> RgName(j)]

\* the provider's "inherited" metadata for an assignment of native scope
\* `native` returned by a query of `scope`
ProviderFlag(e, native, scope) ==
    CASE e.prov_flag = "truthful" -> IF native # scope THEN "true" ELSE "false"
      [] OTHER -> e.prov_flag

ProviderObject(e, id, native, principal_id, principal_type, scope) ==
    [ id |-> id, native |-> native, role_definition_id |-> "r1",
      principal_id |-> principal_id, principal_type |-> principal_type,
      prov_inherited |-> ProviderFlag(e, native, scope) ]

\* the four role assignments of the tenant and their native scopes
A1(e, scope) == ProviderObject(e, "a1", SubScope("abc"), "u1", "User", scope)
A2(e, scope) == ProviderObject(e, "a2", MgScope("mg1"), "g1", "Group", scope)
A3(e, scope) == ProviderObject(e, "a3", RgScope("abc", "rg1"), "sp1",
                               "ServicePrincipal", scope)
A4(e, scope) == ProviderObject(e, "a4", SubScope("sub2"), "x1", None, scope)

NativeScope(assignment_id) ==
    CASE assignment_id = "a1" -> SubScope("abc")
      [] assignment_id = "a2" -> MgScope("mg1")
      [] assignment_id = "a3" -> RgScope("abc", "rg1")
      [] assignment_id = "a4" -> SubScope("sub2")

\* role_assignments.list_for_scope(scope, include_inherited=True)
ProviderAssignments(e, scope) ==
    IF scope \in e.fail_asg THEN [ok |-> FALSE]
    ELSE [ok |-> TRUE, value |->
        CASE scope = MgScope("mg1") ->
                IF e.mg_returns_children THEN <<A2(e, scope), A1(e, scope)>>
                ELSE <<A2(e, scope)>>
          [] scope = SubScope("abc") -> <<A1(e, scope), A2(e, scope)>>
          [] scope = RgScope("abc", "rg1") ->
                <<A3(e, scope), A1(e, scope), A2(e, scope)>>
          [] scope = SubScope("sub2") -> <<A4(e, scope), A2(e, scope)>>
          [] OTHER -> << >>]

\* role_definitions.list(scope)
ProviderDefinitions(e, scope) ==
    IF scope \in e.fail_defs THEN [ok |-> FALSE]
    ELSE [ok |-> TRUE, value |->
        IF scope \in {MgScope("mg1"), SubScope("abc")}
        THEN <<[role_name |-> "Reader", id |-> "r1"]>>
        ELSE << >>]

\* the directory's answer to a user / application lookup
DirectoryAnswer(e, principal_id) ==
    CASE e.directory = "fail" -> [ok |-> FALSE]
      [] e.directory = "mixed" /\ principal_id = "u1" -> [ok |-> FALSE]
      [] principal_id = "u1" ->
            [ok |-> TRUE, display_name |-> "Alice", ident |-> "alice@x"]
      [] OTHER -> [ok |-> TRUE, display_name |-> None, ident |-> "app-1"]

M1 == [ id |-> "m1", odata_type |-> "#microsoft.graph.user",
        display_name |-> "Bob", has_upn |-> TRUE,
        user_principal_name |-> "bob@x" ]
M2 == [ id |-> "m2", odata_type |-> "#microsoft.graph.group",
        display_name |-> None, has_upn |-> FALSE,
        user_principal_name |-> "" ]
M3 == [ id |-> "m3", odata_type |-> "Unknown",
        display_name |-> "Carol", has_upn |-> TRUE,
        user_principal_name |-> "carol@x" ]

\* the directory's answer to a group's members / transitive_members query
GroupAnswer(e, group_id) ==
    CASE e.groups = "fail"  -> [ok |-> FALSE]
      [] e.groups = "none"  -> [ok |-> TRUE, has_value |-> FALSE]
      [] e.groups = "empty" -> [ok |-> TRUE, has_value |-> TRUE,
                                direct |-> << >>, transitive |-> << >>]
      [] OTHER -> [ok |-> TRUE, has_value |-> TRUE,
                   direct |-> <<M1, M2>>, transitive |-> <<M1, M2, M3>>]


(***************************************************************************)
(* Command lines and environments tried                                    *)
(***************************************************************************)
\* --subscriptions as given: one sequence of comma-separated fields per
\* argument; << >> when the option is absent (argparse leaves None, and
\* nargs='+' never yields an empty list)
RawSubscriptions ==
    { << >>,
      << <<"abc">> >>,
      << <<" abc", "zzz">> >>,
      << <<"abc">>, <<"sub2">> >>,
      << <<"zzz">> >>,
      << <<" ", "">> >> }

DefaultArgs ==
    [ subscriptions              |-> << >>,
      discover_subscriptions     |-> FALSE,
      traverse_management_groups |-> FALSE,
      include_resources          |-> FALSE,
      confirm_large_scan         |-> FALSE,
      group_membership_mode      |-> "direct",
      limit                      |-> 0,
      redact                     |-> FALSE,
      no_resolve_principals      |-> FALSE,
      expand_group_members       |-> FALSE,
      markdown_top               |-> DEFAULT_MARKDOWN_TOP,
      json                       |-> FALSE,
      group_members_top          |-> DEFAULT_GROUP_MEMBERS_TOP,
      bootstrap                  |-> FALSE ]

DefaultEnv ==
    [ rg_counts           |-> <<2, 1>>,
      subs_fail           |-> FALSE,
      mgs                 |-> <<"mg1">>,
      mgs_fail            |-> FALSE,
      rgs_fail            |-> {},
      prov_flag           |-> "absent",
      mg_returns_children |-> TRUE,
      fail_defs           |-> {},
      fail_asg            |-> {},
      raise_at            |-> {},
      auth                |-> "primary",
      bootstrap           |-> "ok",
      has_graph           |-> TRUE,
      has_openpyxl        |-> TRUE,
      directory           |-> "ok",
      groups              |-> "members" ]

Limits == {0, 1, 2}
Half == LARGE_RESOURCE_GROUP_THRESHOLD \div 2

\* tenant sizes around the safety rail's thresholds
TenantSizes ==
    { << >>, <<0>>, <<2, 1>>,
      [i \in 1..LARGE_SUBSCRIPTION_THRESHOLD |-> IF i = 1 THEN 1 ELSE 0],
      [i \in 1..MaxSubs |-> 0],
      <<Half, LARGE_RESOURCE_GROUP_THRESHOLD - Half>>,
      <<Half, MaxRgs - Half>> }

\* target selection, scope depth and the safety rail, on tenants of every
\* size; principals are not resolved
ScopingRuns ==
    { << [DefaultArgs EXCEPT !.subscriptions = s,
                             !.discover_subscriptions = d,
                             !.traverse_management_groups = t,
                             !.include_resources = r,
                             !.confirm_large_scan = c,
                             !.group_membership_mode = m,
                             !.limit = l,
                             !.no_resolve_principals = TRUE,
                             !.markdown_top = 0],
         [DefaultEnv EXCEPT !.rg_counts = z, !.subs_fail = f] >> :
        s \in RawSubscriptions, d \in BOOLEAN, t \in BOOLEAN, r \in BOOLEAN,
        c \in BOOLEAN, m \in {"direct", "transitive"}, l \in Limits,
        z \in TenantSizes, f \in {FALSE} }
    \cup
    { << [DefaultArgs EXCEPT !.subscriptions = s,
                             !.discover_subscriptions = TRUE,
                             !.no_resolve_principals = TRUE],
         [DefaultEnv EXCEPT !.subs_fail = TRUE] >> :
        s \in RawSubscriptions }

Targets ==
    { [DefaultArgs EXCEPT !.subscriptions = << <<"abc">> >>,
                          !.confirm_large_scan = TRUE],
      [DefaultArgs EXCEPT !.subscriptions = << <<"abc">> >>,
                          !.traverse_management_groups = TRUE,
                          !.confirm_large_scan = TRUE],
      [DefaultArgs EXCEPT !.discover_subscriptions = TRUE,
                          !.confirm_large_scan = TRUE],
      [DefaultArgs EXCEPT !.traverse_management_groups = TRUE,
                          !.confirm_large_scan = TRUE] }

\* what can go wrong at a scope: a list call fails (fail_defs, fail_asg), or
\* the loop body raises something else (raise_at)
Failures ==
    { [DefaultEnv EXCEPT !.fail_defs = {SubScope("abc")}],
      [DefaultEnv EXCEPT !.fail_asg = {SubScope("abc")}],
      [DefaultEnv EXCEPT !.fail_asg = {MgScope("mg1")}],
      [DefaultEnv EXCEPT !.fail_asg = {RgScope("abc", "rg1")}],
      [DefaultEnv EXCEPT !.raise_at = {SubScope("abc")}],
      [DefaultEnv EXCEPT !.raise_at = {MgScope("mg1")}],
      [DefaultEnv EXCEPT !.raise_at = {RgScope("abc", "rg2")}],
      [DefaultEnv EXCEPT !.rgs_fail = {"abc"}],
      DefaultEnv }

ManagementGroupLists ==
    { [mgs |-> <<"mg1">>, fail |-> FALSE],
      [mgs |-> <<"mg1", "mg2">>, fail |-> FALSE],
      [mgs |-> << >>, fail |-> FALSE],
      [mgs |-> <<"mg1">>, fail |-> TRUE] }

\* aggregation over the scopes of the small tenant
AggregationRuns ==
    { << [a EXCEPT !.include_resources = r, !.limit = l,
                   !.no_resolve_principals = TRUE, !.markdown_top = 0],
         [e EXCEPT !.prov_flag = p, !.mg_returns_children = k,
                   !.mgs = g.mgs, !.mgs_fail = g.fail] >> :
        a \in Targets, r \in BOOLEAN, l \in Limits, e \in Failures,
        p \in {"absent", "false", "truthful"}, k \in BOOLEAN,
        g \in ManagementGroupLists }

\* the report emitters
EmitterRuns ==
    { << [a EXCEPT !.include_resources = r, !.redact = x,
                   !.no_resolve_principals = n, !.expand_group_members = g,
                   !.group_members_top = 2,
                   !.json = j, !.markdown_top = t],
         [e EXCEPT !.has_openpyxl = o] >> :
        a \in Targets, r \in BOOLEAN, x \in BOOLEAN, n \in BOOLEAN,
        g \in BOOLEAN, j \in BOOLEAN, t \in {0, 1, MaxTop}, o \in BOOLEAN,
        e \in { DefaultEnv,
                 [DefaultEnv EXCEPT !.fail_asg =
                    {SubScope("abc"), SubScope("sub2"), MgScope("mg1"),
                     RgScope("abc", "rg1")}] } }

ExpansionOptions ==
    { [expand |-> FALSE, mode |-> "direct", top |-> DEFAULT_GROUP_MEMBERS_TOP,
       groups |-> "members"] }
    \cup
    [ expand : {TRUE}, mode : {"direct", "transitive"}, top : {-1, 0, 1, 2},
      groups : {"fail", "none", "empty", "members"} ]

\* principal resolution and group expansion
PrincipalRuns ==
    { << [a EXCEPT !.include_resources = TRUE, !.redact = x,
                   !.no_resolve_principals = n,
                   !.expand_group_members = g.expand,
                   !.group_membership_mode = g.mode,
                   !.group_members_top = g.top,
                   !.json = TRUE, !.markdown_top = 1],
         [DefaultEnv EXCEPT !.has_graph = h, !.directory = d,
                            !.groups = g.groups] >> :
        a \in { t \in Targets : t.subscriptions # << >> },
        x \in BOOLEAN, n \in BOOLEAN, g \in ExpansionOptions,
        h \in BOOLEAN, d \in {"ok", "mixed", "fail"} }

\* start-up: validation, bootstrap and authentication
StartupRuns ==
    { << [DefaultArgs EXCEPT !.subscriptions = s,
                             !.group_membership_mode = m,
                             !.confirm_large_scan = c,
                             !.bootstrap = b.flag,
                             !.no_resolve_principals = TRUE],
         [DefaultEnv EXCEPT !.auth = u, !.bootstrap = b.outcome] >> :
        s \in { << >>, << <<"abc">> >> }, m \in {"direct", "transitive"},
        c \in BOOLEAN,
        b \in { [flag |-> FALSE, outcome |-> "ok"],
                [flag |-> TRUE, outcome |-> "ok"],
                [flag |-> TRUE, outcome |-> "no_pwsh"],
                [flag |-> TRUE, outcome |-> "failed"] },
        u \in {"primary", "fallback", "none"} }

Runs == ScopingRuns \cup AggregationRuns \cup EmitterRuns \cup PrincipalRuns
        \cup StartupRuns

NoFunction == [x \in {} |-> 0]

\* the state main() starts from, before any run is chosen
Idle ==
    /\ exit_code = -1
    /\ subscriptions_arg = << >>
    /\ logging = FALSE
    /\ credential_type = None
    /\ probes = << >>
    /\ management_groups = << >>
    /\ subscriptions = << >>
    /\ resource_groups_per_sub = NoFunction
    /\ output_dir = FALSE
    /\ files = {}
    /\ all_role_definitions = << >>
    /\ all_role_assignments = << >>
    /\ scopes_processed =
         [managementGroups |-> 0, subscriptions |-> 0, resourceGroups |-> 0]
    /\ scopes_skipped = << >>
    /\ errors = << >>
    /\ warnings = << >>
    /\ principal_cache = NoFunction
    /\ lookups = << >>
    /\ group_calls = << >>
    /\ queried = << >>
    /\ mg_i = 0 /\ sub_i = 0 /\ rg_i = 0 /\ row_i = 0
    /\ call = << >> /\ ret = << >>

Init ==
    /\ \E run \in Runs : argv = run[1] /\ env = run[2]
    /\ pc = "validate"
    /\ Idle


(***************************************************************************)
(* validate_arguments                                                      *)
(***************************************************************************)
RECURSIVE Flatten(_)
Flatten(seqs) == IF Len(seqs) = 0 THEN << >> ELSE seqs[1] \o Flatten(Tail(seqs))

\* str.strip() on the fields tried
Strip(f) ==
    CASE f = " " -> ""
      [] f = " abc" -> "abc"
      [] OTHER -> f

Range(seq) == { seq[i] : i \in 1..Len(seq) }

\* [sub.strip() for sub in expanded_subs if sub.strip()]
ParseSubscriptions(raw) ==
    LET expanded_subs == Flatten(raw)
        kept == SelectSeq(expanded_subs, LAMBDA f : Strip(f) # "")
    IN  [i \in 1..Len(kept) |-> Strip(kept[i])]

\* mutant: the transitive mode is not checked
validate_arguments_target_only(a) ==
    IF /\ a.subscriptions = << >>
       /\ ~a.discover_subscriptions
       /\ ~a.traverse_management_groups
    THEN 1
    ELSE -1

\* the status validate_arguments exits with; -1 when it returns
validate_arguments(a) ==
    IF /\ a.subscriptions = << >>
       /\ ~a.discover_subscriptions
       /\ ~a.traverse_management_groups
    THEN 1
    ELSE IF a.group_membership_mode = "transitive" /\ ~a.confirm_large_scan
    THEN 1
    ELSE -1

(***************************************************************************)
(* Tenant enumeration                                                      *)
(***************************************************************************)
get_management_groups(e) == IF e.mgs_fail THEN << >> ELSE e.mgs

\* subscription_ids = << >> stands for None and for an empty list alike:
\* `subscription_ids and ...` filters with neither
get_subscriptions(e, subscription_ids) ==
    IF e.subs_fail THEN << >>
    ELSE SelectSeq(TenantSubscriptions(e),
                   LAMBDA id : subscription_ids = << >>
                               \/ id \in Range(subscription_ids))

get_resource_groups(e, sub_id) ==
    IF sub_id \in e.rgs_fail THEN << >> ELSE TenantResourceGroups(e, sub_id)

\* mutant: discovery takes precedence over the explicit ids
ResolveSubscriptions_discovery_first(e, a, subscription_ids) ==
    IF a.discover_subscriptions \/ a.traverse_management_groups
    THEN get_subscriptions(e, << >>)
    ELSE IF subscription_ids # << >> THEN get_subscriptions(e, subscription_ids)
    ELSE << >>

\* main(): the subscription list to process
ResolveSubscriptions(e, a, subscription_ids) ==
    IF subscription_ids # << >> THEN get_subscriptions(e, subscription_ids)
    ELSE IF a.discover_subscriptions \/ a.traverse_management_groups
    THEN get_subscriptions(e, << >>)
    ELSE << >>

\* main(): resource_groups_per_sub, filled subscription by subscription
\* until len(resource_groups_per_sub) >= limit
EnumerateResourceGroups(e, a, subs) ==
    LET n == IF ~(a.include_resources \/ Truthy(a.limit)) THEN 0
             ELSE IF ~Truthy(a.limit) THEN Len(subs)
             ELSE IF a.limit > 0 THEN Min(a.limit, Len(subs))
             ELSE Min(1, Len(subs))
    IN  [sub_id \in { subs[i] : i \in 1..n } |-> get_resource_groups(e, sub_id)]

\* len(rgs) for rgs in resource_groups_per_sub.values()
RgCounts(subs, per_sub) ==
    LET listed == SelectSeq(subs, LAMBDA id : id \in DOMAIN per_sub)
    IN  [i \in 1..Len(listed) |-> Len(per_sub[listed[i]])]

(***************************************************************************)
(* main(): the exit status at the end of a run                             *)
(***************************************************************************)
\* mutant: the warnings branch tested before the errors branch
FinalExitCode_warnings_first(errs, warns, skipped) ==
    IF Len(warns) > 0 \/ Len(skipped) > 0 THEN 2
    ELSE IF Len(errs) > 0 THEN 1
    ELSE 0

FinalExitCode(errs, warns, skipped) ==
    IF Len(errs) > 0 THEN 1
    ELSE IF Len(warns) > 0 \/ Len(skipped) > 0 THEN 2
    ELSE 0

\* where main() goes after the resolution pass
AfterResolvePc(assignments) ==
    IF argv.expand_group_members /\ Len(assignments) > 0 THEN "expand"
    ELSE "write"

\* where main() goes after the aggregation loops
AfterAggregationPc(assignments) ==
    IF ~argv.no_resolve_principals /\ Len(assignments) > 0 THEN "resolve"
    ELSE AfterResolvePc(assignments)

FirstRow(next_pc) == IF next_pc \in {"resolve", "expand"} THEN 1 ELSE 0

LimitReached(count) == Truthy(argv.limit) /\ count >= argv.limit


(***************************************************************************)
(* main(), stage by stage                                                  *)
(***************************************************************************)
Exit(status) == pc' = "done" /\ exit_code' = status

\* args = validate_arguments(parser.parse_args())
ValidateArguments ==
    /\ pc = "validate"
    /\ IF validate_arguments(argv) # -1
       THEN /\ Exit(validate_arguments(argv))
            /\ UNCHANGED subscriptions_arg
       ELSE /\ pc' = "bootstrap"
            /\ subscriptions_arg' = ParseSubscriptions(argv.subscriptions)
            /\ UNCHANGED exit_code
    /\ UNCHANGED << argv, env, logging, credential_type, probes,
                    management_groups, subscriptions, resource_groups_per_sub,
                    output_dir, files, all_role_definitions,
                    all_role_assignments, scopes_processed, scopes_skipped,
                    errors, warnings, principal_cache, lookups, group_calls,
                    queried, mg_i, sub_i, rg_i, row_i, call, ret >>

\* the --bootstrap prerequisites check, then init_logging
Bootstrap ==
    /\ pc = "bootstrap"
    /\ IF argv.bootstrap /\ env.bootstrap # "ok"
       THEN Exit(1) /\ UNCHANGED logging
       ELSE pc' = "preflight" /\ logging' = TRUE /\ UNCHANGED exit_code
    /\ UNCHANGED << argv, env, subscriptions_arg, credential_type, probes,
                    management_groups, subscriptions, resource_groups_per_sub,
                    output_dir, files, all_role_definitions,
                    all_role_assignments, scopes_processed, scopes_skipped,
                    errors, warnings, principal_cache, lookups, group_calls,
                    queried, mg_i, sub_i, rg_i, row_i, call, ret >>

\* mutant: the fallback credential is returned though its probe failed
preflight_check_unverified(e) ==
    IF e.auth = "primary"
    THEN [ credential_type |-> "DefaultAzureCredential",
           probes |-> << [credential |-> "DefaultAzureCredential", ok |-> TRUE] >> ]
    ELSE [ credential_type |-> "AzureCliCredential",
           probes |-> << [credential |-> "DefaultAzureCredential", ok |-> FALSE],
                         [credential |-> "AzureCliCredential",
                          ok |-> e.auth = "fallback"] >> ]

\* preflight_check: the credential type that passed its token probe, and the
\* probes made
preflight_check(e) ==
    IF e.auth = "primary"
    THEN [ credential_type |-> "DefaultAzureCredential",
           probes |-> << [credential |-> "DefaultAzureCredential", ok |-> TRUE] >> ]
    ELSE [ credential_type |-> IF e.auth = "fallback" THEN "AzureCliCredential"
                               ELSE None,
           probes |-> << [credential |-> "DefaultAzureCredential", ok |-> FALSE],
                         [credential |-> "AzureCliCredential",
                          ok |-> e.auth = "fallback"] >> ]

Preflight ==
    /\ pc = "preflight"
    /\ credential_type' = preflight_check(env).credential_type
    /\ probes' = preflight_check(env).probes
    /\ IF credential_type' = None THEN Exit(1)
       ELSE pc' = "enumerate" /\ UNCHANGED exit_code
    /\ UNCHANGED << argv, env, subscriptions_arg, logging, management_groups,
                    subscriptions, resource_groups_per_sub, output_dir, files,
                    all_role_definitions, all_role_assignments,
                    scopes_processed, scopes_skipped, errors, warnings,
                    principal_cache, lookups, group_calls, queried,
                    mg_i, sub_i, rg_i, row_i, call, ret >>

\* mutant: the run goes on when management groups were found
Enumerate_management_groups_suffice ==
    /\ pc = "enumerate"
    /\ management_groups' = IF argv.traverse_management_groups
                            THEN get_management_groups(env) ELSE << >>
    /\ subscriptions' = ResolveSubscriptions(env, argv, subscriptions_arg)
    /\ IF Len(subscriptions') = 0 /\ Len(management_groups') = 0
       THEN Exit(1) /\ UNCHANGED resource_groups_per_sub
       ELSE /\ pc' = "rail"
            /\ resource_groups_per_sub' =
                  EnumerateResourceGroups(env, argv, subscriptions')
            /\ UNCHANGED exit_code
    /\ UNCHANGED << argv, env, subscriptions_arg, logging, credential_type,
                    probes, output_dir, files, all_role_definitions,
                    all_role_assignments, scopes_processed, scopes_skipped,
                    errors, warnings, principal_cache, lookups, group_calls,
                    queried, mg_i, sub_i, rg_i, row_i, call, ret >>

\* management groups, subscriptions and resource groups are listed; the run
\* ends here when no subscription is left
Enumerate ==
    /\ pc = "enumerate"
    /\ management_groups' = IF argv.traverse_management_groups
                            THEN get_management_groups(env) ELSE << >>
    /\ subscriptions' = ResolveSubscriptions(env, argv, subscriptions_arg)
    /\ IF Len(subscriptions') = 0
       THEN Exit(1) /\ UNCHANGED resource_groups_per_sub
       ELSE /\ pc' = "rail"
            /\ resource_groups_per_sub' =
                  EnumerateResourceGroups(env, argv, subscriptions')
            /\ UNCHANGED exit_code
    /\ UNCHANGED << argv, env, subscriptions_arg, logging, credential_type,
                    probes, output_dir, files, all_role_definitions,
                    all_role_assignments, scopes_processed, scopes_skipped,
                    errors, warnings, principal_cache, lookups, group_calls,
                    queried, mg_i, sub_i, rg_i, row_i, call, ret >>

\* check_large_tenant_thresholds, then new_output_paths
SafetyRail ==
    /\ pc = "rail"
    /\ IF ~check_large_tenant_thresholds(
              Len(subscriptions),
              RgCounts(subscriptions, resource_groups_per_sub),
              argv.include_resources, subscriptions_arg,
              argv.confirm_large_scan)
       THEN Exit(2) /\ UNCHANGED << output_dir, mg_i, sub_i >>
       ELSE /\ output_dir' = TRUE
            /\ IF argv.traverse_management_groups /\ Len(management_groups) > 0
               THEN pc' = "mg_loop" /\ mg_i' = 1 /\ UNCHANGED sub_i
               ELSE pc' = "sub_loop" /\ sub_i' = 1 /\ UNCHANGED mg_i
            /\ UNCHANGED exit_code
    /\ UNCHANGED << argv, env, subscriptions_arg, logging, credential_type,
                    probes, management_groups, subscriptions,
                    resource_groups_per_sub, files, all_role_definitions,
                    all_role_assignments, scopes_processed, scopes_skipped,
                    errors, warnings, principal_cache, lookups, group_calls,
                    queried, rg_i, row_i, call, ret >>

Queried(scope, with_definitions) ==
    (IF with_definitions THEN << [list |-> "definitions", scope |-> scope] >>
     ELSE << >>) \o << [list |-> "assignments", scope |-> scope] >>

\* the assignments of one scope as main() merges them
FetchAssignments(scope) ==
    MarkInherited(get_role_assignments(scope, ProviderAssignments(env, scope)),
                  scope)

\* mutant: a failing management group is skipped without an error entry
ProcessManagementGroup_skip_only ==
    /\ pc = "mg_loop"
    /\ LET name == management_groups[mg_i]
           scope == MgScope(name)
           raised == scope \in env.raise_at
           count == scopes_processed.managementGroups + 1
           leave == mg_i = Len(management_groups)
                    \/ (~raised /\ LimitReached(count))
       IN  /\ IF raised
              THEN /\ scopes_skipped' = Append(scopes_skipped, "MG:" \o name)
                   /\ UNCHANGED << all_role_definitions, all_role_assignments,
                                   scopes_processed, queried, errors >>
              ELSE /\ all_role_definitions' = all_role_definitions \o
                        get_role_definitions(scope, ProviderDefinitions(env, scope))
                   /\ all_role_assignments' =
                        all_role_assignments \o FetchAssignments(scope)
                   /\ scopes_processed' =
                        [scopes_processed EXCEPT !.managementGroups = count]
                   /\ queried' = queried \o Queried(scope, TRUE)
                   /\ UNCHANGED << errors, scopes_skipped >>
           /\ IF leave
              THEN pc' = "sub_loop" /\ sub_i' = 1 /\ UNCHANGED mg_i
              ELSE mg_i' = mg_i + 1 /\ UNCHANGED << pc, sub_i >>
    /\ UNCHANGED << argv, env, exit_code, subscriptions_arg, logging,
                    credential_type, probes, management_groups, subscriptions,
                    resource_groups_per_sub, output_dir, files, warnings,
                    principal_cache, lookups, group_calls, rg_i, row_i,
                    call, ret >>

\* one iteration of "for mg in management_groups"
ProcessManagementGroup ==
    /\ pc = "mg_loop"
    /\ LET name == management_groups[mg_i]
           scope == MgScope(name)
           raised == scope \in env.raise_at
           count == scopes_processed.managementGroups + 1
           leave == mg_i = Len(management_groups)
                    \/ (~raised /\ LimitReached(count))
       IN  /\ IF raised
              THEN /\ errors' = Append(errors, <<"management group", name>>)
                   /\ scopes_skipped' = Append(scopes_skipped, "MG:" \o name)
                   /\ UNCHANGED << all_role_definitions, all_role_assignments,
                                   scopes_processed, queried >>
              ELSE /\ all_role_definitions' = all_role_definitions \o
                        get_role_definitions(scope, ProviderDefinitions(env, scope))
                   /\ all_role_assignments' =
                        all_role_assignments \o FetchAssignments(scope)
                   /\ scopes_processed' =
                        [scopes_processed EXCEPT !.managementGroups = count]
                   /\ queried' = queried \o Queried(scope, TRUE)
                   /\ UNCHANGED << errors, scopes_skipped >>
           /\ IF leave
              THEN pc' = "sub_loop" /\ sub_i' = 1 /\ UNCHANGED mg_i
              ELSE mg_i' = mg_i + 1 /\ UNCHANGED << pc, sub_i >>
    /\ UNCHANGED << argv, env, exit_code, subscriptions_arg, logging,
                    credential_type, probes, management_groups, subscriptions,
                    resource_groups_per_sub, output_dir, files, warnings,
                    principal_cache, lookups, group_calls, rg_i, row_i,
                    call, ret >>

\* the end of one iteration of "for sub in subscriptions": the limit check,
\* then the next subscription or the end of the aggregation
SubTail(assignments, check_limit) ==
    IF sub_i = Len(subscriptions)
       \/ (check_limit /\ LimitReached(scopes_processed'.subscriptions))
    THEN /\ pc' = AfterAggregationPc(assignments)
         /\ row_i' = FirstRow(pc')
         /\ UNCHANGED sub_i
    ELSE /\ pc' = "sub_loop"
         /\ sub_i' = sub_i + 1
         /\ UNCHANGED row_i

\* one iteration of "for sub in subscriptions", up to the resource groups
ProcessSubscription ==
    /\ pc = "sub_loop"
    /\ LET sub_id == subscriptions[sub_i]
           scope == SubScope(sub_id)
           raised == scope \in env.raise_at
           with_rgs == /\ argv.include_resources
                       /\ sub_id \in DOMAIN resource_groups_per_sub
                       /\ Len(resource_groups_per_sub[sub_id]) > 0
       IN  IF raised
           THEN /\ errors' = Append(errors, <<"subscription", sub_id>>)
                /\ scopes_skipped' = Append(scopes_skipped, "SUB:" \o sub_id)
                /\ UNCHANGED << all_role_definitions, all_role_assignments,
                                scopes_processed, queried, rg_i >>
                /\ SubTail(all_role_assignments, FALSE)
           ELSE /\ all_role_definitions' = all_role_definitions \o
                     get_role_definitions(scope, ProviderDefinitions(env, scope))
                /\ all_role_assignments' =
                     all_role_assignments \o FetchAssignments(scope)
                /\ scopes_processed' =
                     [scopes_processed EXCEPT !.subscriptions = @ + 1]
                /\ queried' = queried \o Queried(scope, TRUE)
                /\ UNCHANGED << errors, scopes_skipped >>
                /\ IF with_rgs
                   THEN pc' = "rg_loop" /\ rg_i' = 1 /\ UNCHANGED << sub_i, row_i >>
                   ELSE SubTail(all_role_assignments', TRUE) /\ UNCHANGED rg_i
    /\ UNCHANGED << argv, env, exit_code, subscriptions_arg, logging,
                    credential_type, probes, management_groups, subscriptions,
                    resource_groups_per_sub, output_dir, files, warnings,
                    principal_cache, lookups, group_calls, mg_i, call, ret >>

\* one iteration of "for rg in rgs" of the current subscription
ProcessResourceGroup ==
    /\ pc = "rg_loop"
    /\ LET sub_id == subscriptions[sub_i]
           rgs == resource_groups_per_sub[sub_id]
           name == rgs[rg_i]
           rg_scope == RgScope(sub_id, name)
           raised == rg_scope \in env.raise_at
           count == scopes_processed.resourceGroups + 1
           leave == rg_i = Len(rgs) \/ (~raised /\ LimitReached(count))
       IN  /\ IF raised
              THEN /\ errors' = Append(errors, <<"resource group", name, sub_id>>)
                   /\ scopes_skipped' =
                        Append(scopes_skipped, "RG:" \o name \o ":" \o sub_id)
                   /\ UNCHANGED << all_role_assignments, scopes_processed,
                                   queried >>
              ELSE /\ all_role_assignments' =
                        all_role_assignments \o FetchAssignments(rg_scope)
                   /\ scopes_processed' =
                        [scopes_processed EXCEPT !.resourceGroups = count]
                   /\ queried' = queried \o Queried(rg_scope, FALSE)
                   /\ UNCHANGED << errors, scopes_skipped >>
           /\ IF leave
              THEN SubTail(all_role_assignments', TRUE) /\ UNCHANGED rg_i
              ELSE rg_i' = rg_i + 1 /\ UNCHANGED << pc, sub_i, row_i >>
    /\ UNCHANGED << argv, env, exit_code, subscriptions_arg, logging,
                    credential_type, probes, management_groups, subscriptions,
                    resource_groups_per_sub, output_dir, files,
                    all_role_definitions, warnings, principal_cache, lookups,
                    group_calls, mg_i, call, ret >>


\* one iteration of the resolution pass over all_role_assignments
ResolvePrincipal ==
    /\ pc = "resolve"
    /\ LET assignment == all_role_assignments[row_i]
           r == resolve_principal(principal_cache, assignment.principalId,
                                  assignment.principalType,
                                  argv.no_resolve_principals, argv.redact,
                                  env.has_graph,
                                  DirectoryAnswer(env, assignment.principalId))
       IN  /\ all_role_assignments' =
                [all_role_assignments EXCEPT
                    ![row_i].principalDisplayName = r.result[1],
                    ![row_i].principalUPNOrAppId = r.result[2]]
           /\ principal_cache' = r.cache
           /\ lookups' = Append(lookups,
                [ principal_id |-> assignment.principalId,
                  principal_type |-> assignment.principalType,
                  result |-> r.result, calls |-> r.calls ])
    /\ IF row_i = Len(all_role_assignments)
       THEN /\ pc' = AfterResolvePc(all_role_assignments)
            /\ row_i' = FirstRow(pc')
       ELSE row_i' = row_i + 1 /\ UNCHANGED pc
    /\ UNCHANGED << argv, env, exit_code, subscriptions_arg, logging,
                    credential_type, probes, management_groups, subscriptions,
                    resource_groups_per_sub, output_dir, files,
                    all_role_definitions, scopes_processed, scopes_skipped,
                    errors, warnings, group_calls, queried, mg_i, sub_i, rg_i,
                    call, ret >>

\* mutant: the resolution pass is run again after the expansion pass
ExpandGroup_resolves_again ==
    /\ pc = "expand"
    /\ LET assignment == all_role_assignments[row_i]
           members == expand_group_members(
                        env.has_graph, argv.group_members_top,
                        argv.group_membership_mode,
                        GroupAnswer(env, assignment.principalId))
       IN  IF assignment.principalType = "Group"
           THEN /\ all_role_assignments' =
                     [all_role_assignments EXCEPT
                        ![row_i] = MergeMembers(assignment, members, argv.redact)]
                /\ group_calls' =
                     IF env.has_graph
                     THEN Append(group_calls, assignment.principalId)
                     ELSE group_calls
           ELSE UNCHANGED << all_role_assignments, group_calls >>
    /\ IF row_i = Len(all_role_assignments)
       THEN IF /\ ~argv.no_resolve_principals
               /\ Len(lookups) <= Len(all_role_assignments)
            THEN pc' = "resolve" /\ row_i' = 1
            ELSE pc' = "write" /\ row_i' = 0
       ELSE row_i' = row_i + 1 /\ UNCHANGED pc
    /\ UNCHANGED << argv, env, exit_code, subscriptions_arg, logging,
                    credential_type, probes, management_groups, subscriptions,
                    resource_groups_per_sub, output_dir, files,
                    all_role_definitions, scopes_processed, scopes_skipped,
                    errors, warnings, principal_cache, lookups, queried,
                    mg_i, sub_i, rg_i, call, ret >>

\* one iteration of the group expansion pass over all_role_assignments
ExpandGroup ==
    /\ pc = "expand"
    /\ LET assignment == all_role_assignments[row_i]
           members == expand_group_members(
                        env.has_graph, argv.group_members_top,
                        argv.group_membership_mode,
                        GroupAnswer(env, assignment.principalId))
       IN  IF assignment.principalType = "Group"
           THEN /\ all_role_assignments' =
                     [all_role_assignments EXCEPT
                        ![row_i] = MergeMembers(assignment, members, argv.redact)]
                /\ group_calls' =
                     IF env.has_graph
                     THEN Append(group_calls, assignment.principalId)
                     ELSE group_calls
           ELSE UNCHANGED << all_role_assignments, group_calls >>
    /\ IF row_i = Len(all_role_assignments)
       THEN pc' = "write" /\ row_i' = 0
       ELSE row_i' = row_i + 1 /\ UNCHANGED pc
    /\ UNCHANGED << argv, env, exit_code, subscriptions_arg, logging,
                    credential_type, probes, management_groups, subscriptions,
                    resource_groups_per_sub, output_dir, files,
                    all_role_definitions, scopes_processed, scopes_skipped,
                    errors, warnings, principal_cache, lookups, queried,
                    mg_i, sub_i, rg_i, call, ret >>

\* subscription ids observed in the assignment set (sub_assignments' keys)
ObservedSubscriptions(assignments) ==
    { assignments[i].subscriptionId : i \in 1..Len(assignments) } \ {""}

AssignmentsOf(assignments, sub_id) ==
    SelectSeq(assignments, LAMBDA r : r.subscriptionId = sub_id)

\* every artifact the "Write outputs" part of main() asks a writer for; a
\* writer that returns without writing leaves content.kind = "none"
Artifacts(definitions, assignments, a, has_openpyxl) ==
    { [ name |-> "role_definitions.csv", sub |-> "",
        content |-> write_csv(definitions, a.redact) ],
      [ name |-> "role_assignments.csv", sub |-> "",
        content |-> write_csv(assignments, a.redact) ],
      [ name |-> "role_assignments.xlsx", sub |-> "",
        content |-> write_xlsx(assignments, has_openpyxl, a.redact) ],
      [ name |-> "role_assignments.md", sub |-> "",
        content |-> IF a.markdown_top > 0
                    THEN write_markdown(assignments, a.markdown_top, a.redact)
                    ELSE NoFile ],
      [ name |-> "role_definitions.json", sub |-> "",
        content |-> IF a.json THEN write_json(definitions, a.redact)
                    ELSE NoFile ],
      [ name |-> "role_assignments.json", sub |-> "",
        content |-> IF a.json THEN write_json(assignments, a.redact)
                    ELSE NoFile ],
      [ name |-> "index.json", sub |-> "",
        content |-> [ kind |-> "index",
                      role_definitions |-> Len(definitions),
                      role_assignments |-> Len(assignments) ] ] }
    \cup
    { [ name |-> "role_assignments_" \o sub_id \o ".csv", sub |-> sub_id,
        content |-> write_csv(AssignmentsOf(assignments, sub_id), a.redact) ] :
        sub_id \in ObservedSubscriptions(assignments) }
    \cup
    { [ name |-> "role_assignments_" \o sub_id \o ".xlsx", sub |-> sub_id,
        content |-> write_xlsx(AssignmentsOf(assignments, sub_id),
                               has_openpyxl, a.redact) ] :
        sub_id \in ObservedSubscriptions(assignments) }

WriteOutputs ==
    /\ pc = "write"
    /\ files' = { f \in Artifacts(all_role_definitions, all_role_assignments,
                                  argv, env.has_openpyxl) :
                    f.content.kind # "none" }
    /\ pc' = "summary"
    /\ UNCHANGED << argv, env, exit_code, subscriptions_arg, logging,
                    credential_type, probes, management_groups, subscriptions,
                    resource_groups_per_sub, output_dir, all_role_definitions,
                    all_role_assignments, scopes_processed, scopes_skipped,
                    errors, warnings, principal_cache, lookups, group_calls,
                    queried, mg_i, sub_i, rg_i, row_i, call, ret >>

\* write_summary, then "Determine exit code"
Finish ==
    /\ pc = "summary"
    /\ Exit(FinalExitCode(errors, warnings, scopes_skipped))
    /\ UNCHANGED << argv, env, subscriptions_arg, logging, credential_type,
                    probes, management_groups, subscriptions,
                    resource_groups_per_sub, output_dir, files,
                    all_role_definitions, all_role_assignments,
                    scopes_processed, scopes_skipped, errors, warnings,
                    principal_cache, lookups, group_calls, queried,
                    mg_i, sub_i, rg_i, row_i, call, ret >>

Next ==
    \/ ValidateArguments
    \/ Bootstrap
    \/ Preflight
    \/ Enumerate
    \/ SafetyRail
    \/ ProcessManagementGroup
    \/ ProcessSubscription
    \/ ProcessResourceGroup
    \/ ResolvePrincipal
    \/ ExpandGroup
    \/ WriteOutputs
    \/ Finish

Spec == Init /\ [][Next]_vars


(***************************************************************************)
(* Properties of the run                                                   *)
(***************************************************************************)
Rows == { all_role_assignments[i] : i \in 1..Len(all_role_assignments) }

\* C1: every merged assignment record whose native scope differs from the
\* scope it was fetched under (the scope the record carries) has
\* inherited = TRUE, whatever inherited value the provider supplied.
\* The code violates it: the record carries the queried scope, so main()'s
\* comparison never marks anything.
C1_InheritedIsScopeDerived ==
    \A r \in Rows : NativeScope(r.assignmentId) # r.scope => r.inherited = TRUE

\* C2: in the run that requests subscription abc alone, whose two
\* assignments are a1 (native at the subscription) and a2 (inherited from
\* management group mg1): the copy of a1 fetched at the subscription has
\* inherited = FALSE, and, when management groups are traversed too, the
\* copy of a1 the management-group query returns has inherited = TRUE.
C2_EndToEndScenario ==
    subscriptions_arg = <<"abc">> =>
        \A r \in Rows :
            r.assignmentId = "a1" =>
                /\ r.scope = SubScope("abc") => r.inherited = FALSE
                /\ r.scope = MgScope("mg1") => r.inherited = TRUE

\* the safety rail has been evaluated
C3_RailEvaluated ==
    /\ Len(subscriptions) > 0
    /\ pc \notin {"validate", "bootstrap", "preflight", "enumerate", "rail"}

\* the condition under which the rail is to abort the run
C3_RailCondition ==
    /\ ~argv.confirm_large_scan
    /\ \/ Len(subscriptions) > LARGE_SUBSCRIPTION_THRESHOLD
       \/ SumSeq(RgCounts(subscriptions, resource_groups_per_sub))
            > LARGE_RESOURCE_GROUP_THRESHOLD
       \/ (argv.include_resources /\ subscriptions_arg = << >>)

C3_NothingProduced == ~output_dir /\ files = {} /\ queried = << >>

\* C3: once the safety rail has been evaluated, the run has ended with exit
\* code 2, with no output directory, no artifact and no role query made,
\* exactly when the override is absent and (more than 25 subscriptions, or
\* more than 200 enumerated resource groups, or resource-level inclusion with
\* no subscription filter); otherwise it has gone past the rail (the output
\* directory exists).  Nothing is produced before the rail either.
C3_SafetyRail ==
    /\ pc = "rail" => C3_NothingProduced
    /\ C3_RailEvaluated =>
         IF C3_RailCondition
         THEN pc = "done" /\ exit_code = 2 /\ C3_NothingProduced
         ELSE output_dir /\ ~(pc = "done" /\ files = {})

C3_Witness ==
    /\ pc = "done" /\ exit_code = 2
    /\ Len(subscriptions) = LARGE_SUBSCRIPTION_THRESHOLD + 1
    /\ ~argv.include_resources
    /\ SumSeq(RgCounts(subscriptions, resource_groups_per_sub)) = 0

\* the records a file's rows were written from
C4_Source(f) ==
    IF f.sub = "" THEN all_role_assignments
    ELSE AssignmentsOf(all_role_assignments, f.sub)

C4_Tables == {"csv", "xlsx", "md", "json"}

\* C4: with --redact, in every row of every file written by the CSV, XLSX,
\* Markdown and JSON emitters (merged and per subscription), the columns
\* principalUPNOrAppId and memberUPN hold '[REDACTED]' wherever the record
\* has the field (a column the record lacks is written empty).
C4_RedactionInEveryEmitter ==
    argv.redact =>
        \A f \in files :
            f.content.kind \in C4_Tables =>
                \A i \in 1..Len(f.content.rows) :
                    \A k \in REDACT_KEYS \cap DOMAIN f.content.rows[i] :
                        IF k \in DOMAIN C4_Source(f)[i]
                        THEN f.content.rows[i][k] = REDACTED
                        ELSE f.content.rows[i][k] = ""

C4_Witness ==
    /\ argv.redact /\ pc = "done"
    /\ \A kind \in C4_Tables :
         \E f \in files :
            /\ f.content.kind = kind
            /\ \E i \in 1..Len(f.content.rows) :
                 /\ REDACT_KEYS \subseteq DOMAIN f.content.rows[i]
                 /\ f.content.rows[i].memberUPN = REDACTED
                 /\ f.content.rows[i].principalUPNOrAppId = REDACTED
    /\ \E f \in files : f.sub # "" /\ f.content.kind = "xlsx"


\* the run went through every phase and wrote its summary
Completed == pc = "done" /\ output_dir

MarkdownFiles == { f \in files : f.name = "role_assignments.md" }

\* a Markdown file of min(M, N) rows whose footer names min(M, N) and M
C7_FileAsStated(f) ==
    LET M == Len(all_role_assignments)
        N == argv.markdown_top
    IN  /\ Len(f.content.rows) = Min(M, N)
        /\ f.content.shown = Min(M, N)
        /\ f.content.total = M

\* C7 (as stated): a completed run with N > 0 has a Markdown file
\* of min(M, N) rows and that footer for every M, M = 0 included.
C7_AsStated ==
    (Completed /\ argv.markdown_top > 0) =>
        \E f \in MarkdownFiles : C7_FileAsStated(f)

\* C7: a completed run with N > 0 and M >= 1 merged assignments has exactly
\* one Markdown file, of min(M, N) data rows, whose footer reports
\* shown = min(M, N) and total = M; with M = 0 (or N <= 0) no Markdown file
\* is written.
C7_MarkdownRowLimit ==
    Completed =>
        IF argv.markdown_top > 0 /\ Len(all_role_assignments) >= 1
        THEN /\ Cardinality(MarkdownFiles) = 1
             /\ \A f \in MarkdownFiles : C7_FileAsStated(f)
        ELSE MarkdownFiles = {}

\* more assignments than the limit: the file is cut to N rows
C7_Witness ==
    /\ Completed
    /\ argv.markdown_top >= 1
    /\ Len(all_role_assignments) > argv.markdown_top
    /\ \E f \in MarkdownFiles :
         Len(f.content.rows) = argv.markdown_top /\ f.content.total > f.content.shown

AuthenticationFailed == Len(probes) > 0 /\ credential_type = None

NoSubscription == credential_type # None /\ Len(subscriptions) = 0

RailTripped == C3_RailEvaluated /\ ~output_dir

\* C8: exit code 0 only for a completed run with no error, no warning and no
\* skipped scope (and such a run exits 0); 1 when authentication failed, no
\* subscription was found or any error was recorded; 2 when the safety rail
\* aborted the run, or the run completed with warnings or skipped scopes and
\* no error.
C8_ExitCodes ==
    /\ exit_code = 0 =>
         /\ Completed
         /\ errors = << >> /\ warnings = << >> /\ scopes_skipped = << >>
    /\ pc = "done" =>
         /\ AuthenticationFailed => exit_code = 1
         /\ NoSubscription => exit_code = 1
         /\ Len(errors) > 0 => exit_code = 1
         /\ RailTripped => exit_code = 2
         /\ ( /\ Completed /\ errors = << >>
              /\ (warnings # << >> \/ scopes_skipped # << >>) )
              => exit_code = 2
         /\ ( /\ Completed /\ errors = << >>
              /\ warnings = << >> /\ scopes_skipped = << >> )
              => exit_code = 0

\* a run that completed with a recorded error and a skipped scope exits 1
C8_Witness ==
    /\ Completed
    /\ Len(errors) > 0 /\ Len(scopes_skipped) > 0
    /\ exit_code = 1

NoTargetGate ==
    /\ argv.subscriptions = << >>
    /\ ~argv.discover_subscriptions
    /\ ~argv.traverse_management_groups

TransitiveGate ==
    argv.group_membership_mode = "transitive" /\ ~argv.confirm_large_scan

NoOutput == ~output_dir /\ files = {}

\* C9: a run stopped by any of the three safety gates (large-tenant rail
\* tripped, transitive expansion without override, missing target flags) has
\* ended with exit code 2 and no output.  validate_arguments exits with
\* status 1, so the two argument gates violate it.
C9_GatesExitTwo ==
    ( /\ pc = "done"
      /\ (NoTargetGate \/ TransitiveGate \/ RailTripped) )
        => exit_code = 2 /\ NoOutput

\* C10: a run whose arguments fail validation never gets past validation: no
\* logging, no credential probe, no enumeration of management groups,
\* subscriptions or resource groups, no role query, no directory call, no
\* output directory and no file, however large the tenant.
C10_ValidationFirst ==
    (NoTargetGate \/ TransitiveGate) =>
        /\ pc \in {"validate", "done"}
        /\ ~logging
        /\ probes = << >> /\ credential_type = None
        /\ management_groups = << >> /\ subscriptions = << >>
        /\ DOMAIN resource_groups_per_sub = {}
        /\ queried = << >>
        /\ lookups = << >> /\ group_calls = << >>
        /\ ~output_dir /\ files = {}

\* transitive expansion without the override, against the largest tenant
C10_Witness ==
    /\ pc = "done"
    /\ TransitiveGate /\ ~NoTargetGate
    /\ Len(env.rg_counts) = MaxSubs
    /\ probes = << >>

\* the tag main() gives a scope in scopes_skipped
SkippedTag(scope) ==
    CASE ScopeType(scope) = "ManagementGroup" -> "MG:" \o scope[Len(scope)]
      [] ScopeType(scope) = "ResourceGroup" ->
            "RG:" \o ScopeResourceGroup(scope) \o ":" \o ScopeSubscriptionId(scope)
      [] OTHER -> "SUB:" \o ScopeSubscriptionId(scope)

\* the list call of this query failed
FetchFailed(q) ==
    \/ q.list = "definitions" /\ q.scope \in env.fail_defs
    \/ q.list = "assignments" /\ q.scope \in env.fail_asg

\* C11: every scope whose role-definition or role-assignment fetch failed is
\* in scopes_skipped under its tag (MG:, SUB: or RG: plus name), and the run
\* goes on to completion.  The fetch functions catch the failure themselves
\* and return an empty list, so main() never records the scope.
C11_FailedScopeSkipped ==
    \A i \in 1..Len(queried) :
        FetchFailed(queried[i]) =>
            /\ \E j \in 1..Len(scopes_skipped) :
                 scopes_skipped[j] = SkippedTag(queried[i].scope)
            /\ pc = "done" => Completed

\* the subscription list has been resolved
SubscriptionsResolved == credential_type # None /\ pc # "enumerate"

\* what subscriptions.list() yields in this tenant
AccessibleSubscriptions ==
    IF env.subs_fail THEN {}
    ELSE { SubId(i) : i \in 1..Len(env.rg_counts) }

\* C12: once resolved, the subscriptions to process are, without repetition,
\* the requested ids that are accessible when --subscriptions names ids
\* (unknown ids dropped, whatever the discovery flags), and otherwise, with
\* discovery or management-group traversal, every accessible subscription.
C12_SubscriptionSet ==
    SubscriptionsResolved =>
        /\ Cardinality(Range(subscriptions)) = Len(subscriptions)
        /\ subscriptions_arg # << >> =>
             Range(subscriptions) =
                Range(subscriptions_arg) \cap AccessibleSubscriptions
        /\ ( /\ subscriptions_arg = << >>
             /\ (argv.discover_subscriptions \/ argv.traverse_management_groups) )
             => Range(subscriptions) = AccessibleSubscriptions

\* abc and the unknown zzz requested together with discovery, in a tenant of
\* two subscriptions: abc alone is kept
C12_Witness ==
    /\ SubscriptionsResolved
    /\ argv.discover_subscriptions
    /\ subscriptions_arg = <<"abc", "zzz">>
    /\ Len(env.rg_counts) = 2
    /\ subscriptions = <<"abc">>

\* main() is at tenant enumeration or past it
EnumerationReached ==
    \/ pc \in {"enumerate", "rail", "mg_loop", "sub_loop", "rg_loop",
               "resolve", "expand", "write", "summary"}
    \/ management_groups # << >> \/ subscriptions # << >>
    \/ DOMAIN resource_groups_per_sub # {} \/ queried # << >>
    \/ output_dir \/ files # {}

\* C13: the first token probe is the primary credential's; the CLI-session
\* fallback is probed exactly when the primary probe failed; the run is at
\* enumeration or beyond only if one of the probes succeeded; and when both
\* failed the run has ended with exit code 1, nothing enumerated, no output.
C13_CredentialAcquisition ==
    /\ probes # << >> =>
         /\ probes[1].credential = "DefaultAzureCredential"
         /\ Len(probes) = IF probes[1].ok THEN 1 ELSE 2
         /\ Len(probes) = 2 => probes[2].credential = "AzureCliCredential"
    /\ EnumerationReached =>
         \E i \in 1..Len(probes) :
            probes[i].ok /\ credential_type = probes[i].credential
    /\ (probes # << >> /\ \A i \in 1..Len(probes) : ~probes[i].ok) =>
         /\ pc = "done" /\ exit_code = 1
         /\ ~EnumerationReached

\* the primary probe failed, the fallback's succeeded, and the run resolved
\* its subscriptions
C13_Witness ==
    /\ Len(probes) = 2
    /\ ~probes[1].ok /\ probes[2].ok
    /\ credential_type = "AzureCliCredential"
    /\ subscriptions # << >>

\* C14: when the resolved subscription list is empty (every requested id
\* unknown, nothing accessible, or the listing failed), the run has ended
\* with exit code 1 with no role query made, no output directory and no
\* file, whether or not management groups were found.
C14_NoSubscriptionExit ==
    (SubscriptionsResolved /\ subscriptions = << >>) =>
        /\ pc = "done" /\ exit_code = 1
        /\ queried = << >>
        /\ ~output_dir /\ files = {}

\* management group mg1 was found, the only requested id is unknown
C14_Witness ==
    /\ SubscriptionsResolved
    /\ subscriptions_arg = <<"zzz">>
    /\ AccessibleSubscriptions # {}
    /\ management_groups = <<"mg1">>
    /\ subscriptions = << >>
    /\ exit_code = 1

\* this call asked the directory and the directory failed
LookupFailed(l) ==
    l.calls = 1 /\ ~DirectoryAnswer(env, l.principal_id).ok

\* the resolution pass is over
ResolutionPassed ==
    /\ ~argv.no_resolve_principals
    /\ all_role_assignments # << >>
    /\ pc \in {"expand", "write", "summary"} \/ Completed

\* C16: with redaction off, a call whose directory lookup failed returns the
\* principal id as display name and as UPN/AppID; no error is recorded for
\* it, and the resolution pass goes on: when it is over every assignment has
\* been through the resolver and carries the pair it returned.
C16_LookupFailureFallsBack ==
    ~argv.redact =>
        /\ \A i \in 1..Len(lookups) :
             LookupFailed(lookups[i]) =>
                lookups[i].result =
                   <<lookups[i].principal_id, lookups[i].principal_id>>
        /\ (\E i \in 1..Len(lookups) : LookupFailed(lookups[i])) =>
             errors = << >> /\ (pc = "done" => Completed)
        /\ ResolutionPassed =>
             /\ Len(lookups) = Len(all_role_assignments)
             /\ \A i \in 1..Len(lookups) :
                  /\ lookups[i].principal_id = all_role_assignments[i].principalId
                  /\ all_role_assignments[i].principalDisplayName
                       = lookups[i].result[1]
                  /\ all_role_assignments[i].principalUPNOrAppId
                       = lookups[i].result[2]

\* the lookup of u1 failed and a later principal was still resolved
C16_Witness ==
    /\ ~argv.redact /\ ResolutionPassed
    /\ \E i, j \in 1..Len(lookups) :
         /\ i < j
         /\ LookupFailed(lookups[i])
         /\ lookups[i].result = <<"u1", "u1">>
         /\ lookups[j].calls = 1
         /\ lookups[j].result[2] = "app-1"

\* the position of main() in the pipeline
Stage(p) ==
    CASE p = "validate" -> 0
      [] p = "bootstrap" -> 1
      [] p = "preflight" -> 2
      [] p = "enumerate" -> 3
      [] p = "rail" -> 4
      [] p \in {"mg_loop", "sub_loop", "rg_loop"} -> 5
      [] p = "resolve" -> 6
      [] p = "expand" -> 7
      [] p = "write" -> 8
      [] p = "summary" -> 9
      [] OTHER -> 10

C18_Step ==
    /\ Stage(pc') >= Stage(pc)
    /\ queried' # queried => (Stage(pc) = 5 /\ output_dir)
    /\ lookups' # lookups => (Stage(pc) = 6 /\ queried' = queried)
    /\ group_calls' # group_calls => (Stage(pc) = 7 /\ lookups' = lookups)
    /\ all_role_assignments' # all_role_assignments => Stage(pc) \in {5, 6, 7}
    /\ files' # files =>
         (Stage(pc) = 8 /\ all_role_assignments' = all_role_assignments)

\* C18: every step of a run keeps or advances the stage (validation,
\* start-up, enumeration, safety rail, aggregation, resolution, expansion,
\* output, summary): role lists are fetched only during aggregation, after
\* the rail has passed; principals are resolved only in the resolution pass,
\* groups expanded only in the expansion pass, files written only in the
\* output stage; so no stage starts before the one before it has finished
\* and none is re-entered.
C18_StagesForward == [][C18_Step]_vars

\* a run that went through every stage
C18_Witness ==
    /\ Completed
    /\ queried # << >> /\ lookups # << >> /\ group_calls # << >>
    /\ \E f \in files : f.name = "role_assignments.csv"

QueriedType(i) == ScopeType(queried[i].scope)

\* C19 (as stated): in the order of the queries, no management-group scope
\* comes after a subscription or resource-group scope, and no subscription
\* scope comes after a resource-group scope.
C19_AsStated ==
    \A i, j \in 1..Len(queried) :
        i < j =>
            /\ QueriedType(j) = "ManagementGroup"
                 => QueriedType(i) = "ManagementGroup"
            /\ QueriedType(j) = "Subscription"
                 => QueriedType(i) # "ResourceGroup"

\* the queries one step adds to those made so far
C19_Step ==
    \A j \in (Len(queried) + 1)..Len(queried') :
        /\ ScopeType(queried'[j].scope) = "ManagementGroup" =>
             \A i \in 1..Len(queried) : QueriedType(i) = "ManagementGroup"
        /\ ScopeType(queried'[j].scope) = "ResourceGroup" =>
             /\ Len(queried) > 0
             /\ QueriedType(Len(queried)) \in {"Subscription", "ResourceGroup"}
             /\ ScopeSubscriptionId(queried[Len(queried)].scope)
                  = ScopeSubscriptionId(queried'[j].scope)

\* C19: a management-group scope is queried only while nothing but
\* management-group scopes has been queried, so all of them come before any
\* subscription or resource-group scope; a resource-group scope is queried
\* right after the scope of its own subscription or after another resource
\* group of that subscription: the resource groups of a subscription follow
\* its own query, before the next subscription.
C19_TraversalOrder == [][C19_Step]_vars

\* a management group, then subscription abc, its resource groups, and then
\* the next subscription
C19_Witness ==
    \E i, j, k, l \in 1..Len(queried) :
        /\ i < j /\ j < k /\ k < l
        /\ QueriedType(i) = "ManagementGroup"
        /\ queried[j].scope = SubScope("abc")
        /\ QueriedType(k) = "ResourceGroup"
        /\ queried[l].scope = SubScope("sub2")

\* C20: with --limit N, N >= 1, each of the three counts of processed
\* scopes (management groups, subscriptions, resource groups over all
\* subscriptions) is at most N.  The resource-group limit only leaves the
\* loop over the current subscription's resource groups, so every further
\* subscription adds one more.
C20_LimitPerCategory ==
    argv.limit >= 1 =>
        /\ scopes_processed.managementGroups <= argv.limit
        /\ scopes_processed.subscriptions <= argv.limit
        /\ scopes_processed.resourceGroups <= argv.limit

\* C21: a call of resolve_principal makes a directory call only for a
\* principal of type User or ServicePrincipal; for a principal of any other
\* type (Group, Unknown) it makes none and returns the id as both fields, or
\* the sentinel pair under redaction.
C21_LookupOnlyUsersAndApps ==
    \A i \in 1..Len(lookups) :
        /\ lookups[i].calls = 1 =>
             lookups[i].principal_type \in {"User", "ServicePrincipal"}
        /\ lookups[i].principal_type \notin {"User", "ServicePrincipal"} =>
             /\ lookups[i].calls = 0
             /\ lookups[i].result =
                  IF argv.redact THEN <<REDACTED, REDACTED>>
                  ELSE <<lookups[i].principal_id, lookups[i].principal_id>>

\* with the directory client present and answering, a group and a principal
\* of unknown type went through the resolver, and so did a user
C21_Witness ==
    /\ env.has_graph /\ env.directory = "ok" /\ ~argv.redact
    /\ \E i, j, k \in 1..Len(lookups) :
         /\ lookups[i].principal_type = "Group"
         /\ lookups[i].result = <<"g1", "g1">>
         /\ lookups[j].principal_type = "Unknown"
         /\ lookups[j].result = <<"x1", "x1">>
         /\ lookups[k].principal_type = "User" /\ lookups[k].calls = 1

\* C22: the member count attached to an assignment (the length of the list
\* expand_group_members returned, in either mode) never exceeds
\* --group-members-top, and a failing expansion does not stop the run.
\* The cap is applied as the slice value[:top]: a negative top drops that
\* many members from the end instead of capping.
C22_MemberCap ==
    /\ \A r \in Rows :
         "memberCount" \in DOMAIN r => r.memberCount <= argv.group_members_top
    /\ (argv.expand_group_members /\ env.groups = "fail" /\ pc = "done"
        /\ output_dir) => \E f \in files : f.name = "index.json"

MemberKeys ==
    {"memberCount", "memberPrincipalId", "memberType", "memberDisplayName",
     "memberUPN"}

\* the members the directory returns for the run's mode, cut to the cap
C23_Returned ==
    IF ~env.has_graph \/ env.groups # "members" THEN << >>
    ELSE Take(IF argv.group_membership_mode = "direct" THEN <<M1, M2>>
              ELSE <<M1, M2, M3>>, argv.group_members_top)

\* one step of the expansion pass, on the assignment it is at
C23_Step ==
    pc = "expand" =>
        LET old == all_role_assignments[row_i]
            new == all_role_assignments'[row_i]
        IN  /\ Len(all_role_assignments') = Len(all_role_assignments)
            /\ \A i \in 1..Len(all_role_assignments) :
                 i # row_i => all_role_assignments'[i] = all_role_assignments[i]
            /\ IF old.principalType = "Group" /\ Len(C23_Returned) > 0
               THEN /\ DOMAIN new = DOMAIN old \cup MemberKeys
                    /\ \A k \in DOMAIN old \ MemberKeys : new[k] = old[k]
                    /\ new.memberCount = Len(C23_Returned)
                    /\ new.memberPrincipalId = "m1"
                    /\ new.memberType = "user"
                    /\ new.memberDisplayName = "Bob"
                    /\ new.memberUPN =
                         IF argv.redact THEN REDACTED ELSE "bob@x"
               ELSE new = old

\* C23: a step of the expansion pass changes nothing but the assignment it
\* is at; if that assignment's principal is a Group whose expansion returned
\* members, it gains exactly the first member's id, type, display name and
\* UPN (the UPN as redaction leaves it) and the number of members returned,
\* its other fields unchanged; an assignment of another principal type, or a
\* group with no member, a failed expansion or no directory client, is left
\* as it was.
C23_FirstMemberMerged == [][C23_Step]_vars

\* the group's assignment carries Bob and a count of two; the user's
\* assignment next to it has no member field
C23_Witness ==
    /\ pc = "write" /\ ~argv.redact
    /\ \E r \in Rows :
         /\ r.principalType = "Group"
         /\ "memberCount" \in DOMAIN r
         /\ r.memberCount = 2 /\ r.memberPrincipalId = "m1"
    /\ \E r \in Rows :
         r.principalType = "User" /\ DOMAIN r \cap MemberKeys = {}

\* C24: errors and scopes_skipped have the same length in every state of a
\* run (each handler appends to both), and nothing is ever appended to
\* warnings; so a run that completes with a skipped scope exits with 1, and
\* no completed run exits with 2: exit code 2 comes from the safety rail
\* only.
C24_ErrorsAndSkippedInStep ==
    /\ Len(errors) = Len(scopes_skipped)
    /\ warnings = << >>
    /\ (Completed /\ scopes_skipped # << >>) => exit_code = 1
    /\ Completed => exit_code # 2
    /\ exit_code = 2 => ~output_dir

\* a completed run that skipped resource group rg2 of abc
C24_Witness ==
    /\ Completed
    /\ scopes_skipped = <<"RG:rg2:abc">>
    /\ Len(errors) = 1
    /\ exit_code = 1

\* the rows one step merges, against the scope that step queried
C26_Step ==
    /\ queried' # queried =>
         \A k \in (Len(all_role_assignments) + 1)..Len(all_role_assignments') :
             all_role_assignments'[k].scope = queried'[Len(queried')].scope
    /\ \A k \in 1..Len(all_role_assignments') :
         LET r == all_role_assignments'[k]
         IN  /\ r.scopeType = ScopeType(r.scope)
             /\ r.subscriptionId = ScopeSubscriptionId(r.scope)
             /\ r.resourceGroup = ScopeResourceGroup(r.scope)

\* C26: the rows a scope query adds to the merged collection carry the
\* queried scope in their scope field, whatever scope the assignment was
\* made at, and every row's scopeType, subscriptionId and resourceGroup are
\* those of its scope field.
C26_QueriedScopeRecorded == [][C26_Step]_vars

\* a merged row fetched under a resource group for an assignment made at
\* the subscription
C26_Witness ==
    \E k \in 1..Len(all_role_assignments) :
        LET r == all_role_assignments[k]
        IN  /\ r.scopeType = "ResourceGroup"
            /\ NativeScope(r.assignmentId) = SubScope(r.subscriptionId)
            /\ NativeScope(r.assignmentId) # r.scope
            /\ \E i \in 1..Len(queried) : queried[i].scope = r.scope

(***************************************************************************)
(* resolve_principal called alone, any sequence of calls                   *)
(***************************************************************************)
DirectoryAnswers ==
    { [ok |-> FALSE],
      [ok |-> TRUE, display_name |-> "Alice", ident |-> "alice@x"],
      [ok |-> TRUE, display_name |-> None, ident |-> None] }

InitResolver ==
    /\ argv = DefaultArgs
    /\ \E h \in BOOLEAN : env = [DefaultEnv EXCEPT !.has_graph = h]
    /\ pc = "resolver"
    /\ Idle

ResolverCall ==
    /\ pc = "resolver"
    /\ Len(lookups) < MaxCalls
    /\ \E principal_id \in {"u1", "sp1"},
          principal_type \in {"User", "ServicePrincipal", "Group"},
          no_resolve \in BOOLEAN, redact \in BOOLEAN,
          answer \in DirectoryAnswers :
        LET r == resolve_principal(principal_cache, principal_id,
                                   principal_type, no_resolve, redact,
                                   env.has_graph, answer)
        IN  /\ principal_cache' = r.cache
            /\ lookups' = Append(lookups,
                 [ principal_id |-> principal_id,
                   principal_type |-> principal_type,
                   result |-> r.result, calls |-> r.calls,
                   failed |-> r.calls = 1 /\ ~answer.ok ])
            /\ call' = [ principal_id |-> principal_id,
                         principal_type |-> principal_type,
                         no_resolve |-> no_resolve, redact |-> redact ]
            /\ ret' = r.result
    /\ UNCHANGED << argv, env, pc, exit_code, subscriptions_arg, logging,
                    credential_type, probes, management_groups, subscriptions,
                    resource_groups_per_sub, output_dir, files,
                    all_role_definitions, all_role_assignments,
                    scopes_processed, scopes_skipped, errors, warnings,
                    group_calls, queried, mg_i, sub_i, rg_i, row_i >>

SpecResolver == InitResolver /\ [][ResolverCall]_vars

\* C5: a later lookup of a principal id returns the pair the first lookup of
\* that id returned and issues no directory call; so no principal id has more
\* than one directory call, whatever types, flags and directory answers the
\* calls come with.
C5_CacheIdempotence ==
    /\ \A i, j \in 1..Len(lookups) :
         (i < j /\ lookups[i].principal_id = lookups[j].principal_id) =>
            /\ lookups[j].result = lookups[i].result
            /\ lookups[j].calls = 0
    /\ \A p \in { lookups[i].principal_id : i \in 1..Len(lookups) } :
         Cardinality({ i \in 1..Len(lookups) :
                         lookups[i].principal_id = p /\ lookups[i].calls = 1 })
            <= 1

\* a directory call resolved u1; the same id is then asked for again with
\* redaction on and gets the first pair back
C5_Witness ==
    /\ Len(lookups) = 2
    /\ lookups[1].principal_id = "u1" /\ lookups[2].principal_id = "u1"
    /\ lookups[1].calls = 1
    /\ lookups[1].result = <<"Alice", "alice@x">>
    /\ call.redact /\ ret = lookups[1].result

\* one call of resolve_principal, against the cache it found
C25_Step ==
    /\ \A p \in DOMAIN principal_cache :
         /\ p \in DOMAIN principal_cache'
         /\ principal_cache'[p] = principal_cache[p]
    /\ Len(lookups') = Len(lookups) + 1 =>
         LET l == lookups'[Len(lookups')]
         IN  /\ l.principal_id \in DOMAIN principal_cache'
             /\ principal_cache'[l.principal_id] = l.result
             /\ l.failed =>
                  l.result = IF call'.redact THEN <<REDACTED, REDACTED>>
                             ELSE <<l.principal_id, l.principal_id>>
             /\ l.principal_id \in DOMAIN principal_cache =>
                  /\ l.calls = 0
                  /\ l.result = principal_cache[l.principal_id]

\* C25: a call whose directory lookup failed stores its fallback pair in the
\* cache like any other call stores its result; a call for an id already in
\* the cache returns the stored pair and makes no directory call; and no
\* call, whatever type and flags it passes, changes or removes an entry.
C25_FailureMemoized == [][C25_Step]_vars

\* the lookup of u1 failed; u1 is asked for again as a User with resolution
\* on, and gets the fallback pair without a directory call
C25_Witness ==
    /\ Len(lookups) = 2
    /\ lookups[1].principal_id = "u1" /\ lookups[1].failed
    /\ lookups[1].result = <<"u1", "u1">>
    /\ lookups[2].principal_id = "u1" /\ lookups[2].calls = 0
    /\ call.principal_type = "User" /\ ~call.no_resolve /\ env.has_graph
    /\ ret = <<"u1", "u1">>
    /\ principal_cache["u1"] = <<"u1", "u1">>

(***************************************************************************)
(* resolve_principal under the flags of one run                            *)
(***************************************************************************)
\* main() passes args.no_resolve_principals and args.redact to every call:
\* the two flags are chosen once, the principals and the directory's answers
\* call by call
InitResolverRun ==
    /\ \E no_resolve \in BOOLEAN, redact \in BOOLEAN :
         argv = [DefaultArgs EXCEPT !.no_resolve_principals = no_resolve,
                                    !.redact = redact]
    /\ \E h \in BOOLEAN : env = [DefaultEnv EXCEPT !.has_graph = h]
    /\ pc = "resolver_run"
    /\ Idle

ResolverRunCall ==
    /\ pc = "resolver_run"
    /\ Len(lookups) < MaxCalls
    /\ \E principal_id \in {"sp1", "g1"},
          principal_type \in {"ServicePrincipal", "Group"},
          answer \in DirectoryAnswers :
        LET r == resolve_principal(principal_cache, principal_id,
                                   principal_type, argv.no_resolve_principals,
                                   argv.redact, env.has_graph, answer)
        IN  /\ principal_cache' = r.cache
            /\ lookups' = Append(lookups,
                 [ principal_id |-> principal_id,
                   principal_type |-> principal_type,
                   result |-> r.result, calls |-> r.calls ])
            /\ call' = [ principal_id |-> principal_id,
                         principal_type |-> principal_type,
                         answer |-> answer ]
            /\ ret' = r.result
    /\ UNCHANGED << argv, env, pc, exit_code, subscriptions_arg, logging,
                    credential_type, probes, management_groups, subscriptions,
                    resource_groups_per_sub, output_dir, files,
                    all_role_definitions, all_role_assignments,
                    scopes_processed, scopes_skipped, errors, warnings,
                    group_calls, queried, mg_i, sub_i, rg_i, row_i >>

SpecResolverRun == InitResolverRun /\ [][ResolverRunCall]_vars

\* C15: with redaction requested, every call of resolve_principal returns
\* the pair ('[REDACTED]', '[REDACTED]'), on the no-resolve fast path as
\* after a directory lookup, and every cache entry holds that pair.
C15_RedactedAndCached ==
    argv.redact =>
        /\ \A i \in 1..Len(lookups) :
             /\ lookups[i].result = <<REDACTED, REDACTED>>
             /\ lookups[i].principal_id \in DOMAIN principal_cache
        /\ \A p \in DOMAIN principal_cache :
             principal_cache[p] = <<REDACTED, REDACTED>>

\* redaction on, resolution on: the directory answered for sp1, and sp1 was
\* then asked for again
C15_Witness ==
    /\ argv.redact /\ ~argv.no_resolve_principals
    /\ Len(lookups) = 2
    /\ lookups[1].principal_id = "sp1" /\ lookups[1].calls = 1
    /\ lookups[2].principal_id = "sp1" /\ lookups[2].calls = 0
    /\ ret = <<REDACTED, REDACTED>>

\* C17 (as stated): with resolution disabled, every call returns the
\* principal id as both fields and makes no directory call.
C17_AsStated ==
    argv.no_resolve_principals =>
        \A i \in 1..Len(lookups) :
            /\ lookups[i].calls = 0
            /\ lookups[i].result =
                 <<lookups[i].principal_id, lookups[i].principal_id>>

\* C17: with resolution disabled, no call makes a directory call; with
\* redaction off every call returns the principal id as both fields, with
\* redaction on the pair ('[REDACTED]', '[REDACTED]').
C17_NoResolveFastPath ==
    argv.no_resolve_principals =>
        \A i \in 1..Len(lookups) :
            /\ lookups[i].calls = 0
            /\ lookups[i].result =
                 IF argv.redact THEN <<REDACTED, REDACTED>>
                 ELSE <<lookups[i].principal_id, lookups[i].principal_id>>

\* resolution disabled, redaction off: a service principal the directory
\* knows comes back as its id
C17_Witness ==
    /\ argv.no_resolve_principals /\ ~argv.redact
    /\ env.has_graph
    /\ Len(lookups) = 1
    /\ call.principal_type = "ServicePrincipal" /\ call.answer.ok
    /\ ret = <<call.principal_id, call.principal_id>>

(***************************************************************************)
(* get_role_assignments called alone, on any scope path                    *)
(***************************************************************************)
Segments ==
    { "providers", "Microsoft.Management", "managementGroups",
      "subscriptions", "resourceGroups", "mg1", "abc", "rg1" }

Paths == UNION { [1..n -> Segments] : n \in 1..MaxPathLen }

\* what the provider returns: assignments whose own scopes are of other
\* kinds than the queried one
ProviderLists(scope) ==
    { << A1(DefaultEnv, scope), A2(DefaultEnv, scope) >>,
      << A3(DefaultEnv, scope), A4(DefaultEnv, scope), A1(DefaultEnv, scope) >> }

InitClassify ==
    /\ argv = DefaultArgs
    /\ env = DefaultEnv
    /\ pc = "classify"
    /\ exit_code = -1
    /\ subscriptions_arg = << >>
    /\ logging = FALSE
    /\ credential_type = None
    /\ probes = << >>
    /\ management_groups = << >>
    /\ subscriptions = << >>
    /\ resource_groups_per_sub = NoFunction
    /\ output_dir = FALSE
    /\ files = {}
    /\ all_role_definitions = << >>
    /\ all_role_assignments = << >>
    /\ scopes_processed =
         [managementGroups |-> 0, subscriptions |-> 0, resourceGroups |-> 0]
    /\ scopes_skipped = << >>
    /\ errors = << >>
    /\ warnings = << >>
    /\ principal_cache = NoFunction
    /\ lookups = << >>
    /\ group_calls = << >>
    /\ queried = << >>
    /\ mg_i = 0 /\ sub_i = 0 /\ rg_i = 0 /\ row_i = 0
    /\ \E scope \in Paths : \E value \in ProviderLists(scope) :
         call = [scope |-> scope, answer |-> [ok |-> TRUE, value |-> value]]
    /\ ret = << >>

Classify ==
    /\ pc = "classify"
    /\ ret' = get_role_assignments(call.scope, call.answer)
    /\ pc' = "returned"
    /\ UNCHANGED << argv, env, exit_code, subscriptions_arg, logging,
                    credential_type, probes, management_groups, subscriptions,
                    resource_groups_per_sub, output_dir, files,
                    all_role_definitions, all_role_assignments,
                    scopes_processed, scopes_skipped, errors, warnings,
                    principal_cache, lookups, group_calls, queried,
                    mg_i, sub_i, rg_i, row_i, call >>

SpecClassify == InitClassify /\ [][Classify]_vars

\* C6: the records of a query of '/providers/Microsoft.Management/
\* managementGroups/mg1' are ManagementGroup, those of '/subscriptions/abc'
\* Subscription with subscription id 'abc', those of '/subscriptions/abc/
\* resourceGroups/rg1' ResourceGroup with 'abc' and 'rg1'; and for any path,
\* all records of one query get the same scopeType, subscriptionId and
\* resourceGroup, whatever scope and type the provider's objects carry.
C6_ScopeClassification ==
    pc = "returned" =>
        \A i \in 1..Len(ret) :
            /\ call.scope = <<"providers", "Microsoft.Management",
                              "managementGroups", "mg1">>
                 => ret[i].scopeType = "ManagementGroup"
            /\ call.scope = <<"subscriptions", "abc">>
                 => /\ ret[i].scopeType = "Subscription"
                    /\ ret[i].subscriptionId = "abc"
            /\ call.scope = <<"subscriptions", "abc", "resourceGroups", "rg1">>
                 => /\ ret[i].scopeType = "ResourceGroup"
                    /\ ret[i].subscriptionId = "abc"
                    /\ ret[i].resourceGroup = "rg1"
            /\ \A j \in 1..Len(ret) :
                 /\ ret[j].scopeType = ret[i].scopeType
                 /\ ret[j].subscriptionId = ret[i].subscriptionId
                 /\ ret[j].resourceGroup = ret[i].resourceGroup

\* the resource-group path was queried and returned a subscription-level
\* and a management-group-level assignment
C6_Witness ==
    /\ pc = "returned"
    /\ call.scope = <<"subscriptions", "abc", "resourceGroups", "rg1">>
    /\ Len(ret) = 2
    /\ NativeScope(ret[1].assignmentId) = SubScope("abc")
    /\ NativeScope(ret[2].assignmentId) = MgScope("mg1")
    /\ ret[2].scopeType = "ResourceGroup" /\ ret[2].resourceGroup = "rg1"

====
